---- MODULE Spec2Model ----
(***************************************************************************)
(* Model of the papertrail / document_inbox processing pipeline:           *)
(*   - ProcessingResult and its derived property success (domain/models)   *)
(*   - ProcessingService.process and _quarantine_on_error (domain/services)*)
(*   - FilesystemAdapter.store / store_sidecar / quarantine and            *)
(*     sanitize_filename (adapters/storage/filesystem)                     *)
(* Strings are sequences of one-character strings, paths are strings with  *)
(* "/" separators, the filesystem is a function from the paths that exist  *)
(* to the identity of the file stored there.                               *)
(***************************************************************************)
EXTENDS Naturals, Integers, Sequences, FiniteSets, TLC

VARIABLES
    fs,             \* the filesystem: path -> identity of the file at that path
    nextId,         \* number of files created so far (fresh file identities)
    runs,           \* number of process() calls started so far
    pc,             \* position of the current process() call
    path,           \* process(): parameter path
    doc,            \* identity of the file at path when process() was called
    keep,           \* process(): parameter keep
    quarantine_dir, \* ProcessingService.quarantine_dir: <<>> (None) or <<dir>>
    result,         \* process(): the ProcessingResult being filled / returned
    text,           \* process(): local text, <<>> (unset) or <<string>>
    info,           \* process(): local info, <<>> (unset) or <<DocumentInfo>>
    yaml_sidecar,   \* process(): local yaml_sidecar, <<>> (unset) or <<path>>
    exc,            \* the exception in flight, <<>> or <<message>>
    calls,          \* capability calls made by the current process() call, in
                    \* order: [call, arg, raised, ret]
    stored,         \* identities of the files FilesystemAdapter.store has archived
    adapter_call,   \* the last direct call of the storage adapter, <<>> or <<call>>
    sanitize_call,  \* the last call of sanitize_filename, <<>> or
                    \* <<[name, max_length, ret]>>
    now,            \* the clock, in seconds
    empty,          \* identities of the files of size 0
    wpc,            \* run_watcher: its position
    todo,           \* initial_scan: the paths of the current glob still to visit
    pattern_i,      \* initial_scan: index of the current pattern
    events,         \* the observer's queue of created paths
    at_start,       \* the source and staged paths present when run_watcher began
    swept,          \* initial_scan: the paths it has visited, in order, each with
                    \* what it did: [path, did] with did "handle" (_handle_file),
                    \* "process" (_process) or "skip" (not a file)
    hpc,            \* DocumentHandler: position of the call in progress
    hmode,          \* what was called: "handle" (_handle_file) or "pending"
                    \* (_process on a staged file of the sweep)
    hpath,          \* _handle_file: parameter path
    hruns,          \* runs when the handler was called
    start,          \* _wait_for_stability: local start
    gate,           \* how the stability gate of the call ended: "none" (not yet),
                    \* "ready", "timeout", "abandoned", "raised"
    probe,          \* is_file_ready: the resource values it last read, <<>> or
                    \* <<[uploading, downloading, status]>>
    timestamp,      \* _ingest: local timestamp
    pending_path,   \* _handle_file: local pending_path (_ingest's dest)
    mtime,          \* st_mtime of the files, by identity, in seconds
    cleanup_call,   \* the last call of run_cleanup, <<>> or
                    \* <<[retention_days, ret]>>
    helper_call     \* the last call of a helper function (in_date_range,
                    \* _parse_response, sanitize_field), <<>> or <<[fn, ..., ret]>>

\* the variables of a process() call
process_vars == <<runs, pc, path, doc, keep, quarantine_dir, result, text, info,
                  yaml_sidecar, exc, calls>>

\* the variables of what surrounds the pipeline
\* the variables of run_watcher and initial_scan
watch_vars == <<wpc, todo, pattern_i, events, at_start, swept>>

\* the variables of a DocumentHandler call
handler_vars == <<hpc, hmode, hpath, hruns, start, gate, probe, timestamp, pending_path>>

\* the variables of the watcher and its environment
watcher_vars == <<now, empty, watch_vars, handler_vars>>

\* the variables of run_cleanup
cleanup_vars == <<mtime, cleanup_call>>

outer_vars == <<sanitize_call, helper_call, watcher_vars, cleanup_vars>>

vars == <<fs, nextId, stored, adapter_call, process_vars, outer_vars>>

-----------------------------------------------------------------------------
(* Bounds of the model *)

\* process() is called at most MaxRuns times, on at most MaxRuns documents
MaxRuns == 2

\* the storage adapter is called directly at most MaxStores times
MaxStores == 3

\* the part of a title that varies has at most MaxTitle characters
MaxTitle == 5

\* files that come to exist in the watched folders, staged copies included
MaxFiles == 3

\* the folders above a file, as many as MaxParts
MaxParts == 4

-----------------------------------------------------------------------------
(* Strings *)

Digit(n) == <<"0", "1", "2", "3", "4", "5", "6", "7", "8", "9">>[n + 1]

RECURSIVE Str(_)
Str(n) == IF n < 10 THEN <<Digit(n)>> ELSE Str(n \div 10) \o <<Digit(n % 10)>>

RECURSIVE ZeroPad(_, _)
ZeroPad(s, width) == IF Len(s) >= width THEN s ELSE ZeroPad(<<"0">> \o s, width)

\* date.isoformat(): YYYY-MM-DD
isoformat(d) ==
    ZeroPad(Str(d[1]), 4) \o <<"-">> \o ZeroPad(Str(d[2]), 2) \o <<"-">> \o ZeroPad(Str(d[3]), 2)

\* str.lower() on the characters the model uses
lower(s) ==
    [i \in 1..Len(s) |->
        CASE s[i] = "P" -> "p"
          [] s[i] = "D" -> "d"
          [] s[i] = "F" -> "f"
          [] OTHER -> s[i]]

\* s.rfind(c) + 1: the last position of c in s, 0 when there is none
\* the position of the last c in s, 0 if there is none
LastIndexOf(s, c) ==
    LET at == {k \in 1..Len(s) : s[k] = c}
    IN  IF at = {} THEN 0 ELSE CHOOSE k \in at : \A j \in at : j <= k

Whitespace == {" ", "\t", "\n"}

\* str.strip() with no argument: is anything left?
IsBlank(s) == \A i \in 1..Len(s) : s[i] \in Whitespace

-----------------------------------------------------------------------------
(* pathlib.PurePath *)

\* path / name
Join(dir, name) == dir \o <<"/">> \o name

\* path.name
Name(p) == SubSeq(p, LastIndexOf(p, "/") + 1, Len(p))

\* path.parent
Parent(p) == SubSeq(p, 1, LastIndexOf(p, "/") - 1)

\* path.suffix: from the last dot of the name, unless that dot leads or ends it
Suffix(p) ==
    LET n == Name(p)
        i == LastIndexOf(n, ".")
    IN  IF 1 < i /\ i < Len(n) THEN SubSeq(n, i, Len(n)) ELSE <<>>

\* path.stem
Stem(p) ==
    LET n == Name(p)
        i == LastIndexOf(n, ".")
    IN  IF 1 < i /\ i < Len(n) THEN SubSeq(n, 1, i - 1) ELSE n

\* path.with_suffix(suffix)
with_suffix(p, suffix) == Join(Parent(p), Stem(p) \o suffix)

-----------------------------------------------------------------------------
(* The filesystem *)

\* path.exists()
exists(f, p) == p \in DOMAIN f

\* shutil.move(src, dst): the file leaves src and replaces whatever is at dst
move(f, src, dst) ==
    [p \in (DOMAIN f \ {src}) \cup {dst} |-> IF p = dst THEN f[src] ELSE f[p]]

\* writing a file at p: creates it, or replaces the file that was there
write(f, p, id) ==
    [q \in DOMAIN f \cup {p} |-> IF q = p THEN id ELSE f[q]]

\* Settings.paths: base, base/.pending (here the directory documents are
\* processed from) and base/.quarantine
base_path == <<"/", "b">>

paths_pending == Join(base_path, <<".", "p">>)

paths_quarantine == Join(base_path, <<".", "q">>)

-----------------------------------------------------------------------------
(* adapters/storage/filesystem.py *)

PDF == <<".", "p", "d", "f">>

TXT == <<".", "t", "x", "t">>

YAML == <<".", "y", "a", "m", "l">>

Untitled == <<"U", "n", "t", "i", "t", "l", "e", "d">>

\* the default of sanitize_filename's max_length
DefaultMaxLength == 180

\* name.replace("\x00", "")
RemoveNull(s) == SelectSeq(s, LAMBDA c : c # "NUL")

\* name.replace("..", "_"): non-overlapping occurrences, left to right. In a
\* run of dots the first, third, ... dot that has a dot after it becomes "_"
\* and the dot after it disappears.
ReplaceDotDot(s) ==
    LET RunStart(i) == CHOOSE r \in 1..i :
                           /\ \A k \in r..i : s[k] = "."
                           /\ r = 1 \/ s[r - 1] # "."
        Mark(i) == IF s[i] # "." THEN s[i]
                   ELSE IF (i - RunStart(i)) % 2 = 1 THEN "DROP"
                   ELSE IF i < Len(s) /\ s[i + 1] = "." THEN "_"
                   ELSE "."
    IN  SelectSeq([i \in 1..Len(s) |-> Mark(i)], LAMBDA c : c # "DROP")

Problematic == {"<", ">", ":", "\"", "/", "\\", "|", "?", "*"}

\* the problematic characters left as they are
ReplaceProblematic_kept(s) == s

\* re.sub(r'[<>:"/\\|?*]', "_", name)
ReplaceProblematic(s) ==
    [i \in 1..Len(s) |-> IF s[i] \in Problematic THEN "_" ELSE s[i]]

\* s without its leading characters of chars
DropLeading(s, chars) ==
    LET keep_from == {k \in 1..Len(s) : s[k] \notin chars}
    IN  IF keep_from = {} THEN <<>>
        ELSE SubSeq(s, CHOOSE k \in keep_from : \A j \in keep_from : k <= j, Len(s))

\* s without its trailing characters of chars
DropTrailing(s, chars) ==
    LET keep_to == {k \in 1..Len(s) : s[k] \notin chars}
    IN  IF keep_to = {} THEN <<>>
        ELSE SubSeq(s, 1, CHOOSE k \in keep_to : \A j \in keep_to : j <= k)

\* re.sub(r"[_\s]+", " ", name): the first character of a run of underscores
\* and whitespace becomes a space, the rest of the run disappears
Collapse(s) ==
    LET Mark(i) == IF s[i] \notin Whitespace \cup {"_"} THEN s[i]
                   ELSE IF i = 1 \/ s[i - 1] \notin Whitespace \cup {"_"} THEN " "
                   ELSE "DROP"
    IN  SelectSeq([i \in 1..Len(s) |-> Mark(i)], LAMBDA c : c # "DROP")

\* name.strip(chars)
strip(s, chars) == DropTrailing(DropLeading(s, chars), chars)

\* the cut at max_length alone
Truncate_hard(s, max_length) == SubSeq(s, 1, max_length)

\* name[:max_length].rsplit(" ", 1)[0]
Truncate(s, max_length) ==
    LET cut == SubSeq(s, 1, max_length)
        i   == LastIndexOf(cut, " ")
    IN  IF i = 0 THEN cut ELSE SubSeq(cut, 1, i - 1)

sanitize_filename(name, max_length) ==
    LET n1 == RemoveNull(name)
        n2 == ReplaceDotDot(n1)
        n3 == ReplaceProblematic(n2)
        n4 == Collapse(n3)
        n5 == strip(n4, {".", " "})
        n6 == IF Len(n5) > max_length THEN Truncate(n5, max_length) ELSE n5
    IN  IF n6 = <<>> THEN Untitled ELSE n6

\* date.today()
Today == <<2024, 12, 5>>

\* a collision loop that stops at its first name, free or not
store_collision_once(f, dest_dir, title, date_str, suffix, counter) ==
    Join(dest_dir, title \o <<" ", "-", " ">> \o date_str
                       \o <<" ", "(">> \o Str(counter) \o <<")">> \o suffix)

\* FilesystemAdapter.store, its collision loop: the first of
\* "title - date (counter)suffix", counter = counter, counter + 1, ..., that is free
RECURSIVE store_collision(_, _, _, _, _, _)
store_collision(f, dest_dir, title, date_str, suffix, counter) ==
    LET filename == title \o <<" ", "-", " ">> \o date_str
                        \o <<" ", "(">> \o Str(counter) \o <<")">> \o suffix
        dest     == Join(dest_dir, filename)
    IN  IF exists(f, dest)
        THEN store_collision(f, dest_dir, title, date_str, suffix, counter + 1)
        ELSE dest

\* info.date or date.today()
doc_date_of(i) == IF i.date # <<>> THEN i.date ELSE Today

\* FilesystemAdapter.store: the directory base/yyyy/mm
store_dir(i) ==
    Join(Join(base_path, Str(doc_date_of(i)[1])), ZeroPad(Str(doc_date_of(i)[2]), 2))

\* FilesystemAdapter.store: the destination the file is moved to
store_dest(f, p, i) ==
    LET dest_dir == store_dir(i)
        title    == sanitize_filename(i.title, DefaultMaxLength)
        date_str == isoformat(doc_date_of(i))
        filename == title \o <<" ", "-", " ">> \o date_str \o Suffix(p)
        dest     == Join(dest_dir, filename)
    IN  IF exists(f, dest)
        THEN store_collision(f, dest_dir, title, date_str, Suffix(p), 1)
        ELSE dest

\* a sidecar stored in the document's directory under its own name
store_sidecar_dest_own_name(pdf_path, sidecar_path) ==
    Join(Parent(pdf_path), Name(sidecar_path))

\* FilesystemAdapter.store_sidecar: the destination of the sidecar
store_sidecar_dest(pdf_path, sidecar_path) == with_suffix(pdf_path, Suffix(sidecar_path))

\* FilesystemAdapter.quarantine, its collision loop
RECURSIVE quarantine_collision(_, _, _, _)
quarantine_collision(f, p, qdir, counter) ==
    LET dest == Join(qdir, Stem(p) \o <<" ", "(">> \o Str(counter) \o <<")">> \o Suffix(p))
    IN  IF exists(f, dest) THEN quarantine_collision(f, p, qdir, counter + 1) ELSE dest

\* FilesystemAdapter.quarantine: the destination the file is moved to
quarantine_dest(f, p, qdir) ==
    LET dest == Join(qdir, Name(p))
    IN  IF exists(f, dest) THEN quarantine_collision(f, p, qdir, 1) ELSE dest

-----------------------------------------------------------------------------
(* domain/models.py *)

\* ProcessingResult(source_path=path): None is <<>>, a value v is <<v>>
ProcessingResult(source_path) ==
    [source_path   |-> source_path,
     document_info |-> <<>>,
     output_path   |-> <<>>,
     sidecar_path  |-> <<>>,
     text_length   |-> 0,
     errors        |-> <<>>]

\* success without its test of document_info
success_as(r) == Len(r.errors) = 0

\* ProcessingResult.success
success(r) == Len(r.errors) = 0 /\ r.document_info # <<>>

-----------------------------------------------------------------------------
(* The inputs of the model *)

\* names of the files that arrive in the processing directory
DocNames ==
    { <<"a", ".", "p", "d", "f">>,
      <<"n", ".", "d", "o", "c">> }

\* a wider set of names: the spellings of the extension, no extension at
\* all, a name that only starts with a dot, an extension that only starts
\* with .pdf
AllDocNames ==
    DocNames \cup
    { <<"a", ".", "P", "D", "F">>,
      <<"a", ".", "P", "d", "f">>,
      <<"n">>,
      <<".", "p", "d", "f">>,
      <<"n", ".", "p", "d", "f", "x">> }

\* what ocr.extract_text may return
Texts == { <<>>, <<" ", "\n">>, <<"h", "i">> }

\* what llm.analyze may return (DocumentInfo: the fields the pipeline and the
\* storage adapter read; date <<>> is None)
Infos ==
    [title : { <<"T">>, <<"T", "/">> }, date : { <<>>, <<2024, 3, 15>> }]

\* str(e) of the exception a capability call raises
Error(call) == <<"error in ", call>>

-----------------------------------------------------------------------------
(* domain/services.py *)

\* a capability call as the call log records it: ret is <<>> when the call
\* raised or returned nothing, <<v>> when it returned v
Returned(name, arg, ret) == [call |-> name, arg |-> arg, raised |-> FALSE, ret |-> ret]

Raised(name, arg) == [call |-> name, arg |-> arg, raised |-> TRUE, ret |-> <<>>]

\* recording an error that also drops the analysed record
append_error_clearing(r, e) ==
    [r EXCEPT !.errors = Append(@, e), !.document_info = <<>>]

\* result.errors.append(e)
append_error(r, e) == [r EXCEPT !.errors = Append(@, e)]

\* _quarantine_on_error, the loop over the sidecars: fail names the suffix of
\* the sidecar whose storage.quarantine call raises (if that call is made)
RECURSIVE quarantine_sidecars(_, _, _, _, _, _)
quarantine_sidecars(f, p, qdir, suffixes, fail, made) ==
    IF suffixes = <<>>
    THEN [fs |-> f, calls |-> made, raised |-> FALSE]
    ELSE LET sidecar == with_suffix(p, Head(suffixes))
             dest    == quarantine_dest(f, sidecar, qdir)
         IN  IF exists(f, sidecar)
             THEN IF fail = Head(suffixes)
                  THEN [fs |-> f, raised |-> TRUE,
                        calls |-> Append(made, Raised("storage.quarantine", sidecar))]
                  ELSE quarantine_sidecars(
                           move(f, sidecar, dest), p, qdir, Tail(suffixes), fail,
                           Append(made, Returned("storage.quarantine", sidecar, <<dest>>)))
             ELSE quarantine_sidecars(f, p, qdir, Tail(suffixes), fail, made)

\* _quarantine_on_error that moves the files but does not record the
\* destination in result.output_path
quarantine_on_error_no_output(f, r, p, qd, fail) ==
    IF qd # <<>> /\ ~success(r) /\ exists(f, p)
    THEN IF fail = <<"doc">>
         THEN [fs |-> f, result |-> r, raised |-> TRUE,
               calls |-> <<Raised("storage.quarantine", p)>>]
         ELSE LET dest == quarantine_dest(f, p, qd[1])
                  q    == quarantine_sidecars(
                              move(f, p, dest), p, qd[1], <<TXT, YAML>>, fail,
                              <<Returned("storage.quarantine", p, <<dest>>)>>)
              IN  [fs |-> q.fs, result |-> r, raised |-> q.raised, calls |-> q.calls]
    ELSE [fs |-> f, result |-> r, raised |-> FALSE, calls |-> <<>>]

\* _quarantine_on_error whose gate tests the missing document_info in place
\* of result.success
quarantine_on_error_no_info(f, r, p, qd, fail) ==
    IF qd # <<>> /\ r.document_info = <<>> /\ exists(f, p)
    THEN IF fail = <<"doc">>
         THEN [fs |-> f, result |-> r, raised |-> TRUE,
               calls |-> <<Raised("storage.quarantine", p)>>]
         ELSE LET dest == quarantine_dest(f, p, qd[1])
                  q    == quarantine_sidecars(
                              move(f, p, dest), p, qd[1], <<TXT, YAML>>, fail,
                              <<Returned("storage.quarantine", p, <<dest>>)>>)
              IN  [fs |-> q.fs, result |-> [r EXCEPT !.output_path = <<dest>>],
                   raised |-> q.raised, calls |-> q.calls]
    ELSE [fs |-> f, result |-> r, raised |-> FALSE, calls |-> <<>>]

\* ProcessingService._quarantine_on_error(path, result) in filesystem f with
\* quarantine directory qd; fail names the storage.quarantine call that raises:
\* <<>> none, <<"doc">> the document's, TXT or YAML that sidecar's.
\* Yields the filesystem and result it leaves, the calls it made, and whether
\* an exception leaves it.
quarantine_on_error(f, r, p, qd, fail) ==
    IF qd # <<>> /\ ~success(r) /\ exists(f, p)
    THEN IF fail = <<"doc">>
         THEN [fs |-> f, result |-> r, raised |-> TRUE,
               calls |-> <<Raised("storage.quarantine", p)>>]
         ELSE LET dest == quarantine_dest(f, p, qd[1])
                  q    == quarantine_sidecars(
                              move(f, p, dest), p, qd[1], <<TXT, YAML>>, fail,
                              <<Returned("storage.quarantine", p, <<dest>>)>>)
              IN  [fs |-> q.fs, result |-> [r EXCEPT !.output_path = <<dest>>],
                   raised |-> q.raised, calls |-> q.calls]
    ELSE [fs |-> f, result |-> r, raised |-> FALSE, calls |-> <<>>]

QuarantineFailures == { <<>>, <<"doc">>, TXT, YAML }

\* the except clause is entered with exception e in flight
raise(e) == /\ pc' = "except"
            /\ exc' = <<e>>

\* A new document is written into the processing directory.
NewDocument(name) ==
    /\ ~exists(fs, Join(paths_pending, name))
    /\ fs' = write(fs, Join(paths_pending, name), [kind |-> "doc", n |-> nextId])
    /\ nextId' = nextId + 1

\* A document appears in the processing directory between two process() calls
\* (the staged copy the watcher hands to process, or the file given on the
\* command line), one document per call.
Arrive(name) ==
    /\ pc \in {"idle", "returned", "raised"}
    /\ runs < MaxRuns /\ nextId <= runs
    /\ NewDocument(name)
    /\ UNCHANGED <<outer_vars, adapter_call, stored, process_vars>>

\* process(path, keep) is called on a service built with quarantine_dir qd:
\* the result is created and a non-PDF is rejected (with its quarantine).
process(p, k, qd, qfail) ==
    /\ pc \in {"idle", "returned", "raised"}
    /\ runs < MaxRuns
    /\ exists(fs, p) /\ Parent(p) = paths_pending /\ fs[p].kind = "doc"
    /\ runs' = runs + 1
    /\ path' = p
    /\ doc' = fs[p]
    /\ keep' = k
    /\ quarantine_dir' = qd
    /\ text' = <<>>
    /\ info' = <<>>
    /\ yaml_sidecar' = <<>>
    /\ IF lower(Suffix(p)) # PDF
       THEN LET r == append_error(ProcessingResult(p),
                                  <<"Unsupported file type: ">> \o Suffix(p))
                q == quarantine_on_error(fs, r, p, qd, qfail)
            IN  /\ fs' = q.fs
                /\ result' = q.result
                /\ calls' = q.calls
                /\ pc' = IF q.raised THEN "raised" ELSE "returned"
                /\ exc' = IF q.raised THEN <<Error("storage.quarantine")>> ELSE <<>>
       ELSE /\ result' = ProcessingResult(p)
            /\ calls' = <<>>
            /\ pc' = "ocr"
            /\ exc' = <<>>
            /\ fs' = fs
    /\ UNCHANGED <<outer_vars, adapter_call, nextId, stored>>

\* 1. self.ocr.process(path): rewrites the PDF in place; the OCR tool also
\* leaves the text sidecar path.with_suffix(".txt") (a stand-in OCR need not).
ocr_process(raises, sidecar) ==
    /\ pc = "ocr"
    /\ IF raises
       THEN /\ raise(Error("ocr.process"))
            /\ calls' = Append(calls, Raised("ocr.process", path))
            /\ fs' = fs
       ELSE /\ fs' = IF sidecar
                     THEN write(fs, with_suffix(path, TXT), [kind |-> "txt", n |-> doc.n])
                     ELSE fs
            /\ calls' = Append(calls, Returned("ocr.process", path, <<path>>))
            /\ pc' = "extract_text"
            /\ exc' = exc
    /\ UNCHANGED <<outer_vars, adapter_call, nextId, stored, runs, path, doc, keep, quarantine_dir,
                   result, text, info, yaml_sidecar>>

\* 2. text = self.ocr.extract_text(path), its length recorded, blank text
\* rejected (with its quarantine, inside the try block)
extract_text(raises, t, qfail) ==
    /\ pc = "extract_text"
    /\ IF raises
       THEN /\ raise(Error("ocr.extract_text"))
            /\ calls' = Append(calls, Raised("ocr.extract_text", path))
            /\ UNCHANGED <<fs, result, text>>
       ELSE /\ text' = <<t>>
            /\ IF IsBlank(t)
               THEN LET r == append_error([result EXCEPT !.text_length = Len(t)],
                                          <<"No text extracted from document">>)
                        q == quarantine_on_error(fs, r, path, quarantine_dir, qfail)
                    IN  /\ fs' = q.fs
                        /\ result' = q.result
                        /\ calls' = Append(calls, Returned("ocr.extract_text", path, <<t>>))
                                        \o q.calls
                        /\ IF q.raised
                           THEN raise(Error("storage.quarantine"))
                           ELSE /\ pc' = "returned"
                                /\ exc' = exc
               ELSE /\ result' = [result EXCEPT !.text_length = Len(t)]
                    /\ calls' = Append(calls, Returned("ocr.extract_text", path, <<t>>))
                    /\ pc' = "analyze"
                    /\ UNCHANGED <<fs, exc>>
    /\ UNCHANGED <<outer_vars, adapter_call, nextId, stored, runs, path, doc, keep, quarantine_dir,
                   info, yaml_sidecar>>

\* 3. info = self.llm.analyze(text); result.document_info = info
analyze(raises, i) ==
    /\ pc = "analyze"
    /\ IF raises
       THEN /\ raise(Error("llm.analyze"))
            /\ calls' = Append(calls, Raised("llm.analyze", text[1]))
            /\ UNCHANGED <<info, result>>
       ELSE /\ info' = <<i>>
            /\ result' = [result EXCEPT !.document_info = <<i>>]
            /\ calls' = Append(calls, Returned("llm.analyze", text[1], <<i>>))
            /\ pc' = "update_pdf"
            /\ exc' = exc
    /\ UNCHANGED <<outer_vars, adapter_call, nextId, stored, fs, runs, path, doc, keep,
                   quarantine_dir, text, yaml_sidecar>>

\* update_pdf whose exception is swallowed: the run goes on to write_sidecar
update_pdf_swallowed(raises) ==
    /\ pc = "update_pdf"
    /\ calls' = Append(calls, IF raises THEN Raised("metadata.update_pdf", path)
                                         ELSE Returned("metadata.update_pdf", path, <<>>))
    /\ pc' = "write_sidecar"
    /\ exc' = exc
    /\ UNCHANGED <<outer_vars, adapter_call, nextId, stored, fs, runs, path, doc, keep,
                   quarantine_dir, result, text, info, yaml_sidecar>>

\* 4. self.metadata.update_pdf(path, info)
update_pdf(raises) ==
    /\ pc = "update_pdf"
    /\ IF raises
       THEN /\ raise(Error("metadata.update_pdf"))
            /\ calls' = Append(calls, Raised("metadata.update_pdf", path))
       ELSE /\ calls' = Append(calls, Returned("metadata.update_pdf", path, <<>>))
            /\ pc' = "write_sidecar"
            /\ exc' = exc
    /\ UNCHANGED <<outer_vars, adapter_call, nextId, stored, fs, runs, path, doc, keep,
                   quarantine_dir, result, text, info, yaml_sidecar>>

\* write_sidecar followed by the archive steps whatever keep is
write_sidecar_ignoring_keep(raises) ==
    /\ pc = "write_sidecar"
    /\ IF raises
       THEN /\ raise(Error("metadata.write_sidecar"))
            /\ calls' = Append(calls, Raised("metadata.write_sidecar", path))
            /\ UNCHANGED <<fs, yaml_sidecar, result>>
       ELSE /\ fs' = write(fs, with_suffix(path, YAML), [kind |-> "yaml", n |-> doc.n])
            /\ yaml_sidecar' = <<with_suffix(path, YAML)>>
            /\ calls' = Append(calls, Returned("metadata.write_sidecar", path,
                                               <<with_suffix(path, YAML)>>))
            /\ exc' = exc
            /\ pc' = "store"
            /\ result' = result
    /\ UNCHANGED <<outer_vars, adapter_call, nextId, stored, runs, path, doc, keep, quarantine_dir,
                   text, info>>

\* 5. yaml_sidecar = self.metadata.write_sidecar(path, info), written at
\* path.with_suffix(".yaml"); with keep the document stays where it is
write_sidecar(raises) ==
    /\ pc = "write_sidecar"
    /\ IF raises
       THEN /\ raise(Error("metadata.write_sidecar"))
            /\ calls' = Append(calls, Raised("metadata.write_sidecar", path))
            /\ UNCHANGED <<fs, yaml_sidecar, result>>
       ELSE /\ fs' = write(fs, with_suffix(path, YAML), [kind |-> "yaml", n |-> doc.n])
            /\ yaml_sidecar' = <<with_suffix(path, YAML)>>
            /\ calls' = Append(calls, Returned("metadata.write_sidecar", path,
                                               <<with_suffix(path, YAML)>>))
            /\ exc' = exc
            /\ IF ~keep
               THEN /\ pc' = "store"
                    /\ result' = result
               ELSE /\ pc' = "returned"
                    /\ result' = [result EXCEPT !.output_path = <<path>>,
                                                !.sidecar_path = <<with_suffix(path, YAML)>>]
    /\ UNCHANGED <<outer_vars, adapter_call, nextId, stored, runs, path, doc, keep, quarantine_dir,
                   text, info>>

\* 6. result.output_path = self.storage.store(path, info)
store(raises) ==
    /\ pc = "store"
    /\ IF raises \/ ~exists(fs, path)
       THEN /\ raise(Error("storage.store"))
            /\ calls' = Append(calls, Raised("storage.store", path))
            /\ UNCHANGED <<fs, result, stored>>
       ELSE LET dest == store_dest(fs, path, info[1])
            IN  /\ fs' = move(fs, path, dest)
                /\ result' = [result EXCEPT !.output_path = <<dest>>]
                /\ calls' = Append(calls, Returned("storage.store", path, <<dest>>))
                /\ stored' = stored \cup {fs[path]}
                /\ pc' = "store_sidecar"
                /\ exc' = exc
    /\ UNCHANGED <<outer_vars, adapter_call, nextId, runs, path, doc, keep, quarantine_dir, text,
                   info, yaml_sidecar>>

\* result.sidecar_path = self.storage.store_sidecar(result.output_path, yaml_sidecar),
\* then the test txt_sidecar.exists()
store_sidecar(raises) ==
    /\ pc = "store_sidecar"
    /\ IF raises \/ ~exists(fs, yaml_sidecar[1])
       THEN /\ raise(Error("storage.store_sidecar"))
            /\ calls' = Append(calls, Raised("storage.store_sidecar", yaml_sidecar[1]))
            /\ UNCHANGED <<fs, result>>
       ELSE LET dest == store_sidecar_dest(result.output_path[1], yaml_sidecar[1])
            IN  /\ fs' = move(fs, yaml_sidecar[1], dest)
                /\ result' = [result EXCEPT !.sidecar_path = <<dest>>]
                /\ calls' = Append(calls, Returned("storage.store_sidecar",
                                                   yaml_sidecar[1], <<dest>>))
                /\ pc' = IF exists(fs, with_suffix(path, TXT)) THEN "store_txt" ELSE "returned"
                /\ exc' = exc
    /\ UNCHANGED <<outer_vars, adapter_call, nextId, stored, runs, path, doc, keep, quarantine_dir,
                   text, info, yaml_sidecar>>

\* self.storage.store_sidecar(result.output_path, txt_sidecar)
store_txt_sidecar(raises) ==
    /\ pc = "store_txt"
    /\ IF raises \/ ~exists(fs, with_suffix(path, TXT))
       THEN /\ raise(Error("storage.store_sidecar"))
            /\ calls' = Append(calls, Raised("storage.store_sidecar", with_suffix(path, TXT)))
            /\ fs' = fs
       ELSE LET dest == store_sidecar_dest(result.output_path[1], with_suffix(path, TXT))
            IN  /\ fs' = move(fs, with_suffix(path, TXT), dest)
                /\ calls' = Append(calls, Returned("storage.store_sidecar",
                                                   with_suffix(path, TXT), <<dest>>))
                /\ pc' = "returned"
                /\ exc' = exc
    /\ UNCHANGED <<outer_vars, adapter_call, nextId, stored, runs, path, doc, keep, quarantine_dir,
                   result, text, info, yaml_sidecar>>

\* except Exception as e: result.errors.append(str(e)); _quarantine_on_error;
\* an exception raised in the handler leaves process()
except_handler(qfail) ==
    /\ pc = "except"
    /\ LET q == quarantine_on_error(fs, append_error(result, exc[1]), path,
                                    quarantine_dir, qfail)
       IN  /\ fs' = q.fs
           /\ result' = q.result
           /\ calls' = calls \o q.calls
           /\ pc' = IF q.raised THEN "raised" ELSE "returned"
           /\ exc' = IF q.raised THEN <<Error("storage.quarantine")>> ELSE <<>>
    /\ UNCHANGED <<outer_vars, adapter_call, nextId, stored, runs, path, doc, keep, quarantine_dir,
                   text, info, yaml_sidecar>>

-----------------------------------------------------------------------------
(* One process() call after another *)

\* sanitize_filename has not been called
SanitizeIdle == sanitize_call = <<>>

\* no helper function has been called
HelperIdle == helper_call = <<>>

\* run_cleanup has not been called
CleanupIdle == mtime = << >> /\ cleanup_call = <<>>

\* nothing around the pipeline has run yet
\* no handler call is in progress
HandlerIdle ==
    /\ hpc = "idle"
    /\ hmode = "handle"
    /\ hpath = <<>>
    /\ hruns = 0
    /\ start = 0
    /\ gate = "none"
    /\ probe = <<>>
    /\ timestamp = <<>>
    /\ pending_path = <<>>

\* run_watcher has not been called
WatchIdle ==
    /\ wpc = "off"
    /\ todo = {}
    /\ pattern_i = 1
    /\ events = <<>>
    /\ at_start = [source |-> {}, pending |-> {}]
    /\ swept = <<>>

WatcherIdle ==
    /\ now = 0
    /\ empty = {}
    /\ WatchIdle
    /\ HandlerIdle

OuterInit == SanitizeIdle /\ HelperIdle /\ CleanupIdle /\ WatcherIdle

\* an empty filesystem and a service that has not been called
\* the service has not been called
ServiceIdle ==
    /\ stored = {}
    /\ adapter_call = <<>>
    /\ runs = 0
    /\ pc = "idle"
    /\ path = <<>>
    /\ doc = [kind |-> "doc", n |-> 0]
    /\ keep = FALSE
    /\ quarantine_dir = <<>>
    /\ result = ProcessingResult(<<>>)
    /\ text = <<>>
    /\ info = <<>>
    /\ yaml_sidecar = <<>>
    /\ exc = <<>>
    /\ calls = <<>>

PipelineInit ==
    /\ fs = << >>
    /\ nextId = 0
    /\ ServiceIdle

Init == OuterInit /\ PipelineInit

\* the process() call in progress takes its next step
PipelineStep ==
    \/ \E raises \in BOOLEAN, sidecar \in BOOLEAN : ocr_process(raises, sidecar)
    \/ \E raises \in BOOLEAN, t \in Texts, qfail \in QuarantineFailures :
          extract_text(raises, t, qfail)
    \/ \E raises \in BOOLEAN, i \in Infos : analyze(raises, i)
    \/ \E raises \in BOOLEAN : update_pdf(raises)
    \/ \E raises \in BOOLEAN : write_sidecar(raises)
    \/ \E raises \in BOOLEAN : store(raises)
    \/ \E raises \in BOOLEAN : store_sidecar(raises)
    \/ \E raises \in BOOLEAN : store_txt_sidecar(raises)
    \/ \E qfail \in QuarantineFailures : except_handler(qfail)

ProcessNext ==
    \/ \E p \in DOMAIN fs, k \in BOOLEAN, qd \in {<<>>, <<paths_quarantine>>},
          qfail \in QuarantineFailures : process(p, k, qd, qfail)
    \/ PipelineStep

Next ==
    \/ \E name \in DocNames : Arrive(name)
    \/ ProcessNext

Spec == Init /\ [][Next]_vars

-----------------------------------------------------------------------------
(* process() called on a leftover document of any name *)

InitNames ==
    /\ OuterInit
    /\ \E name \in AllDocNames :
          fs = write(<< >>, Join(paths_pending, name), [kind |-> "doc", n |-> 0])
    /\ nextId = 1
    /\ stored = {}
    /\ adapter_call = <<>>
    /\ runs = 0
    /\ pc = "idle"
    /\ path = <<>>
    /\ doc = [kind |-> "doc", n |-> 0]
    /\ keep = FALSE
    /\ quarantine_dir = <<>>
    /\ result = ProcessingResult(<<>>)
    /\ text = <<>>
    /\ info = <<>>
    /\ yaml_sidecar = <<>>
    /\ exc = <<>>
    /\ calls = <<>>

SpecNames == InitNames /\ [][ProcessNext]_vars

-----------------------------------------------------------------------------
(* The storage adapter called directly *)

\* a document to store appears, one at a time
StorageArrive(name) ==
    /\ nextId < MaxStores
    /\ \A p \in DOMAIN fs : Parent(p) # paths_pending
    /\ NewDocument(name)
    /\ UNCHANGED <<outer_vars, adapter_call, stored, process_vars>>

\* FilesystemAdapter(base_path).store(p, i)
adapter_store(p, i) ==
    /\ exists(fs, p) /\ Parent(p) = paths_pending
    /\ LET dest == store_dest(fs, p, i)
       IN  /\ fs' = move(fs, p, dest)
           /\ adapter_call' = <<[op |-> "store", path |-> p, info |-> i, dest |-> dest]>>
    /\ stored' = stored \cup {fs[p]}
    /\ UNCHANGED <<outer_vars, nextId, process_vars>>

NextStorage ==
    \/ \E name \in DocNames : StorageArrive(name)
    \/ \E p \in DOMAIN fs, i \in Infos : adapter_store(p, i)

SpecStorage == Init /\ [][NextStorage]_vars

-----------------------------------------------------------------------------
(* sanitize_filename called on a title *)

\* the characters of a title: a letter, a space, a dot, a character that is
\* not allowed in file names, a null byte
TitleChars == {"a", " ", ".", "/", "NUL"}

\* a word so long that a few more characters reach the default max_length
LongWord == [k \in 1..(DefaultMaxLength - 3) |-> "a"]

\* the titles sanitize_filename is called with: every string of at most
\* MaxTitle characters, alone or after the long word
Titles ==
    LET Short == UNION {[1..n -> TitleChars] : n \in 0..MaxTitle}
    IN  Short \cup {LongWord \o t : t \in Short}

InitSanitize ==
    /\ PipelineInit
    /\ WatcherIdle
    /\ CleanupIdle
    /\ HelperIdle
    /\ \E name \in Titles :
          sanitize_call = <<[name |-> name, max_length |-> DefaultMaxLength, ret |-> <<>>]>>

\* sanitize_filename(name) returns
sanitize ==
    /\ sanitize_call # <<>> /\ sanitize_call[1].ret = <<>>
    /\ sanitize_call' =
           <<[sanitize_call[1] EXCEPT
                 !.ret = <<sanitize_filename(sanitize_call[1].name,
                                             sanitize_call[1].max_length)>>]>>
    /\ UNCHANGED <<fs, nextId, stored, adapter_call, process_vars, watcher_vars,
                   cleanup_vars, helper_call>>

SpecSanitize == InitSanitize /\ [][sanitize]_vars

-----------------------------------------------------------------------------
(* watcher.py and adapters/platform/macos.py *)

\* seconds between two readiness checks
STABILITY_WAIT == 1

\* seconds after which the stability gate stops waiting
STABILITY_TIMEOUT == 30

\* settings.paths.source and settings.paths.trash
paths_source == <<"/", "s">>

paths_trash == Join(base_path, <<".", "t">>)

\* settings.watch.patterns: each pattern "*<tail>" is given by its tail
patterns == << <<".", "p", "d", "f">>, <<".", "p", "n", "g">> >>

\* names of the files that appear in the source folder
WatchNames ==
    { <<"a", ".", "p", "d", "f">>,
      <<"n", ".", "p", "n", "g">> }

\* the resource values is_file_ready may read
Resources ==
    [uploading : BOOLEAN, downloading : BOOLEAN,
     status : {"None", "Current", "Downloaded", "NotDownloaded"}]

\* the resource values of a file that is fully synced
SyncedResources ==
    [uploading : {FALSE}, downloading : {FALSE}, status : {"Current"}]

\* fnmatch.fnmatch(name, "*" + tail)
fnmatch(name, tail) ==
    /\ Len(name) >= Len(tail)
    /\ SubSeq(name, Len(name) - Len(tail) + 1, Len(name)) = tail

\* DocumentHandler._matches_patterns(path)
matches_patterns(p) == \E k \in 1..Len(patterns) : fnmatch(Name(p), patterns[k])

\* dir.glob("*" + tail): the entries of dir whose name matches
glob(f, dir, tail) == {p \in DOMAIN f : Parent(p) = dir /\ fnmatch(Name(p), tail)}

\* datetime.now().strftime("%Y%m%d_%H%M%S") at second t after 12:00:00 of
\* 2024-12-05
strftime(t) ==
    <<"2", "0", "2", "4", "1", "2", "0", "5", "_", "1", "2", "0", "0">>
        \o ZeroPad(Str(t), 2)

\* path.unlink(), or the file disappearing
unlink(f, p) == [q \in DOMAIN f \ {p} |-> f[q]]

\* shutil.copy2(src, dst): dst holds a new file, a copy of the one at src
copy2(f, src, dst, id) == write(f, dst, [kind |-> f[src].kind, n |-> id])

\* path.stat().st_size of an existing file is 0
is_empty(f, p) == f[p].n \in empty

\* a readiness test that takes every file of nonzero size as ready
resources_ready_always(r) == TRUE

\* is_file_ready once the file was found to exist with size > 0: the tests
\* of its resource values
resources_ready(r) ==
    IF r.uploading THEN FALSE
    ELSE IF r.downloading THEN FALSE
    ELSE IF r.status = "None" THEN TRUE
    ELSE r.status \in {"Current", "Downloaded"}

(* The environment of the watcher *)

\* A file is created in the source folder, of size 0 if e; the observer, once
\* started, queues its creation event. (The handler of one path reads nothing
\* of the other paths of the source folder: a creation during a call of the
\* handler has the effect of one just after it.)
Create(name, e) ==
    /\ nextId < MaxFiles
    /\ wpc # "crashed" /\ hpc = "idle"
    /\ ~exists(fs, Join(paths_source, name))
    /\ fs' = write(fs, Join(paths_source, name), [kind |-> "doc", n |-> nextId])
    /\ nextId' = nextId + 1
    /\ empty' = IF e THEN empty \cup {nextId} ELSE empty
    /\ events' = IF wpc \in {"observing", "stopping"}
                 THEN Append(events, Join(paths_source, name))
                 ELSE events
    /\ UNCHANGED <<stored, adapter_call, process_vars, sanitize_call, helper_call, cleanup_vars, now, wpc, todo,
                   pattern_i, at_start, swept, handler_vars>>

\* A staged file was left in the staging directory by a prior run of the
\* watcher.
Leftover(name) ==
    /\ wpc = "off" /\ hpc = "idle"
    /\ nextId < MaxFiles
    /\ ~exists(fs, Join(paths_pending, name))
    /\ fs' = write(fs, Join(paths_pending, name), [kind |-> "doc", n |-> nextId])
    /\ nextId' = nextId + 1
    /\ UNCHANGED <<stored, adapter_call, process_vars, outer_vars>>

\* A file of the source folder disappears (removed or evicted by the sync):
\* between two calls of the handler (during the sweep, a file of the glob
\* that waits for its turn), or the handled file during the call.
Vanish(p) ==
    /\ exists(fs, p) /\ Parent(p) = paths_source
    /\ \/ hpc = "idle" /\ wpc \in {"off", "observing"}
       \/ hpc = "idle" /\ wpc = "scan_source" /\ p \in todo
       \/ p = hpath /\ hpc \notin {"idle", "process", "raised"}
    /\ fs' = unlink(fs, p)
    /\ UNCHANGED <<nextId, stored, adapter_call, process_vars, outer_vars>>

\* An empty file of the source folder gets its content.
Grow(p) ==
    /\ exists(fs, p) /\ Parent(p) = paths_source /\ is_empty(fs, p)
    /\ empty' = empty \ {fs[p].n}
    /\ UNCHANGED <<fs, nextId, stored, adapter_call, process_vars, sanitize_call, helper_call, cleanup_vars, now,
                   watch_vars, handler_vars>>

(* DocumentHandler *)

\* a handler that ingests without the stability gate
handle_file_ungated(p) ==
    /\ hpc' = "ingest_copy"
    /\ hmode' = "handle"
    /\ hpath' = p
    /\ hruns' = runs
    /\ start' = now
    /\ gate' = "none"
    /\ probe' = <<>>
    /\ timestamp' = <<>>
    /\ pending_path' = <<>>

\* _handle_file(p) is called: _wait_for_stability starts
handle_file(p) ==
    /\ hpc' = "gate"
    /\ hmode' = "handle"
    /\ hpath' = p
    /\ hruns' = runs
    /\ start' = now
    /\ gate' = "none"
    /\ probe' = <<>>
    /\ timestamp' = <<>>
    /\ pending_path' = <<>>

\* _wait_for_stability, the head of its loop: the test of the elapsed time
\* and of path.exists(); a missing file is abandoned and _handle_file returns
gate_poll ==
    /\ hpc = "gate"
    /\ IF now - start < STABILITY_TIMEOUT
       THEN IF ~exists(fs, hpath)
            THEN gate' = "abandoned" /\ hpc' = "idle"
            ELSE gate' = gate /\ hpc' = "ready_exists"
       ELSE gate' = gate /\ hpc' = "timeout_exists"
    /\ UNCHANGED <<fs, nextId, stored, adapter_call, process_vars, sanitize_call, helper_call, cleanup_vars, now,
                   empty, watch_vars, hmode, hpath, hruns, start, probe, timestamp,
                   pending_path>>

\* is_file_ready: its test path.exists()
ready_exists ==
    /\ hpc = "ready_exists"
    /\ hpc' = IF ~exists(fs, hpath) THEN "sleep" ELSE "ready_stat"
    /\ UNCHANGED <<fs, nextId, stored, adapter_call, process_vars, sanitize_call, helper_call, cleanup_vars, now,
                   empty, watch_vars, hmode, hpath, hruns, start, gate, probe,
                   timestamp, pending_path>>

\* is_file_ready: path.stat() (FileNotFoundError if the file is gone), the
\* test of the size and the resource values r; a ready file is admitted
ready_stat(r) ==
    /\ hpc = "ready_stat"
    /\ IF ~exists(fs, hpath)
       THEN gate' = "raised" /\ hpc' = "raised" /\ probe' = probe
       ELSE IF is_empty(fs, hpath)
       THEN gate' = gate /\ hpc' = "sleep" /\ probe' = probe
       ELSE /\ probe' = <<r>>
            /\ IF resources_ready(r)
               THEN gate' = "ready" /\ hpc' = "ingest_copy"
               ELSE gate' = gate /\ hpc' = "sleep"
    /\ UNCHANGED <<fs, nextId, stored, adapter_call, process_vars, sanitize_call, helper_call, cleanup_vars, now,
                   empty, watch_vars, hmode, hpath, hruns, start, timestamp,
                   pending_path>>

\* time.sleep(STABILITY_WAIT); what is_file_ready read is gone with its return
sleep ==
    /\ hpc = "sleep"
    /\ now' = now + STABILITY_WAIT
    /\ hpc' = "gate"
    /\ probe' = <<>>
    /\ UNCHANGED <<fs, nextId, stored, adapter_call, process_vars, sanitize_call, helper_call, cleanup_vars, empty,
                   watch_vars, hmode, hpath, hruns, start, gate, timestamp,
                   pending_path>>

\* after the timeout: path.exists()
timeout_exists ==
    /\ hpc = "timeout_exists"
    /\ IF ~exists(fs, hpath)
       THEN gate' = "abandoned" /\ hpc' = "idle"
       ELSE gate' = gate /\ hpc' = "timeout_stat"
    /\ UNCHANGED <<fs, nextId, stored, adapter_call, process_vars, sanitize_call, helper_call, cleanup_vars, now,
                   empty, watch_vars, hmode, hpath, hruns, start, probe, timestamp,
                   pending_path>>

\* after the timeout: path.stat().st_size > 0 (FileNotFoundError if the file
\* is gone)
timeout_stat ==
    /\ hpc = "timeout_stat"
    /\ IF ~exists(fs, hpath)
       THEN gate' = "raised" /\ hpc' = "raised"
       ELSE IF ~is_empty(fs, hpath)
       THEN gate' = "timeout" /\ hpc' = "ingest_copy"
       ELSE gate' = "abandoned" /\ hpc' = "idle"
    /\ UNCHANGED <<fs, nextId, stored, adapter_call, process_vars, sanitize_call, helper_call, cleanup_vars, now,
                   empty, watch_vars, hmode, hpath, hruns, start, probe, timestamp,
                   pending_path>>

\* _ingest: the staging destination for timestamp ts
ingest_dest(f, p, ts) ==
    IF exists(f, Join(paths_pending, Name(p)))
    THEN Join(paths_pending, ts \o <<"_">> \o Name(p))
    ELSE Join(paths_pending, Name(p))

\* _ingest: the trash destination for timestamp ts
trash_path(p, ts) == Join(paths_trash, ts \o <<"_">> \o Name(p))

\* _ingest, up to shutil.copy2(path, dest); an exception is caught by
\* _handle_file, which returns
ingest_copy(raises) ==
    /\ hpc = "ingest_copy"
    /\ timestamp' = strftime(now)
    /\ IF raises \/ ~exists(fs, hpath)
       THEN /\ hpc' = "idle"
            /\ UNCHANGED <<fs, nextId, empty, pending_path>>
       ELSE LET dest == ingest_dest(fs, hpath, strftime(now))
            IN  /\ fs' = copy2(fs, hpath, dest, nextId)
                /\ nextId' = nextId + 1
                /\ empty' = IF is_empty(fs, hpath) THEN empty \cup {nextId} ELSE empty
                /\ pending_path' = dest
                /\ hpc' = "ingest_move"
    /\ UNCHANGED <<stored, adapter_call, process_vars, sanitize_call, helper_call, cleanup_vars, now, watch_vars,
                   hmode, hpath, hruns, start, gate, probe>>

\* _ingest: shutil.move(str(path), trash_path) and the return of dest; an
\* exception is caught by _handle_file, which returns
ingest_move(raises) ==
    /\ hpc = "ingest_move"
    /\ IF raises \/ ~exists(fs, hpath)
       THEN hpc' = "idle" /\ fs' = fs
       ELSE /\ fs' = move(fs, hpath, trash_path(hpath, timestamp))
            /\ hpc' = "process"
    /\ UNCHANGED <<nextId, stored, adapter_call, process_vars, sanitize_call, helper_call, cleanup_vars, now, empty,
                   watch_vars, hmode, hpath, hruns, start, gate, probe, timestamp,
                   pending_path>>

\* _process: self.service.process(path), on the service of
\* create_processing_service (quarantine_dir = settings.paths.quarantine)
call_process(qfail) ==
    /\ hpc = "process" /\ runs = hruns
    /\ process(pending_path, FALSE, <<paths_quarantine>>, qfail)

\* _process after process() ended: the result is logged and the handler
\* returns; an exception that left process() is caught by _handle_file, and
\* leaves _process when the sweep called it on a staged file
process_done ==
    /\ hpc = "process" /\ runs > hruns
    /\ pc \in {"returned", "raised"}
    /\ hpc' = IF pc = "raised" /\ hmode = "pending" THEN "raised" ELSE "idle"
    /\ UNCHANGED <<fs, nextId, stored, adapter_call, process_vars, sanitize_call, helper_call, cleanup_vars, now,
                   empty, watch_vars, hmode, hpath, hruns, start, gate, probe,
                   timestamp, pending_path>>

\* the stability gate takes a step
GateStep ==
    \/ gate_poll
    \/ ready_exists
    \/ \E r \in Resources : ready_stat(r)
    \/ sleep
    \/ timeout_exists
    \/ timeout_stat

(* run_watcher and initial_scan *)

\* run_watcher is called (the source folder exists): initial_scan starts
\* its first glob of the source folder
run_watcher ==
    /\ wpc = "off" /\ hpc = "idle"
    /\ wpc' = "scan_source"
    /\ pattern_i' = 1
    /\ todo' = glob(fs, paths_source, patterns[1])
    /\ at_start' = [source  |-> {p \in DOMAIN fs : Parent(p) = paths_source
                                                   /\ matches_patterns(p)},
                    pending |-> {p \in DOMAIN fs : Parent(p) = paths_pending
                                                   /\ matches_patterns(p)}]
    /\ swept' = <<>>
    /\ UNCHANGED <<fs, nextId, stored, adapter_call, process_vars, sanitize_call, helper_call, cleanup_vars, now,
                   empty, events, handler_vars>>

\* initial_scan, first loop: the next path of the glob, handled if it is a file
scan_source_visit(p) ==
    /\ wpc = "scan_source" /\ hpc = "idle"
    /\ p \in todo
    /\ todo' = todo \ {p}
    /\ IF exists(fs, p) THEN handle_file(p) ELSE UNCHANGED handler_vars
    /\ swept' = Append(swept, [path |-> p,
                                did |-> IF exists(fs, p) THEN "handle" ELSE "skip"])
    /\ UNCHANGED <<fs, nextId, stored, adapter_call, process_vars, sanitize_call, helper_call, cleanup_vars, now,
                   empty, wpc, pattern_i, events, at_start>>

\* initial_scan, first loop: the glob is exhausted; the next pattern, or the
\* second loop
scan_source_next ==
    /\ wpc = "scan_source" /\ hpc = "idle"
    /\ todo = {}
    /\ IF pattern_i < Len(patterns)
       THEN /\ pattern_i' = pattern_i + 1
            /\ todo' = glob(fs, paths_source, patterns[pattern_i + 1])
            /\ wpc' = wpc
       ELSE /\ pattern_i' = 1
            /\ todo' = glob(fs, paths_pending, patterns[1])
            /\ wpc' = "scan_pending"
    /\ UNCHANGED <<fs, nextId, stored, adapter_call, process_vars, sanitize_call, helper_call, cleanup_vars, now,
                   empty, events, at_start, swept, handler_vars>>

\* initial_scan, second loop: handler._process(p) on the next staged file
scan_pending_visit(p) ==
    /\ wpc = "scan_pending" /\ hpc = "idle"
    /\ p \in todo
    /\ todo' = todo \ {p}
    /\ IF exists(fs, p)
       THEN /\ hpc' = "process"
            /\ hmode' = "pending"
            /\ hpath' = p
            /\ pending_path' = p
            /\ hruns' = runs
            /\ gate' = "none"
            /\ probe' = <<>>
            /\ timestamp' = <<>>
            /\ start' = start
       ELSE UNCHANGED handler_vars
    /\ swept' = Append(swept, [path |-> p,
                                did |-> IF exists(fs, p) THEN "process" ELSE "skip"])
    /\ UNCHANGED <<fs, nextId, stored, adapter_call, process_vars, sanitize_call, helper_call, cleanup_vars, now,
                   empty, wpc, pattern_i, events, at_start>>

\* initial_scan, second loop: the glob is exhausted; the next pattern, or
\* initial_scan returns and the observer is scheduled and started
scan_pending_next ==
    /\ wpc = "scan_pending" /\ hpc = "idle"
    /\ todo = {}
    /\ IF pattern_i < Len(patterns)
       THEN /\ pattern_i' = pattern_i + 1
            /\ todo' = glob(fs, paths_pending, patterns[pattern_i + 1])
            /\ wpc' = wpc
       ELSE /\ pattern_i' = pattern_i
            /\ todo' = todo
            /\ wpc' = "observing"
    /\ UNCHANGED <<fs, nextId, stored, adapter_call, process_vars, sanitize_call, helper_call, cleanup_vars, now,
                   empty, events, at_start, swept, handler_vars>>

\* on_created(event): the observer delivers the next creation event
on_created ==
    /\ wpc \in {"observing", "stopping"} /\ hpc = "idle"
    /\ events # <<>>
    /\ events' = Tail(events)
    /\ IF matches_patterns(Head(events))
       THEN handle_file(Head(events))
       ELSE UNCHANGED handler_vars
    /\ UNCHANGED <<fs, nextId, stored, adapter_call, process_vars, sanitize_call, helper_call, cleanup_vars, now,
                   empty, wpc, todo, pattern_i, at_start, swept>>

\* an exception leaves the handler: it leaves initial_scan and run_watcher,
\* or ends the observer's thread
propagate ==
    /\ hpc = "raised" /\ wpc # "crashed"
    /\ wpc' = "crashed"
    /\ UNCHANGED <<fs, nextId, stored, adapter_call, process_vars, sanitize_call, helper_call, cleanup_vars, now,
                   empty, todo, pattern_i, events, at_start, swept, handler_vars>>

\* the handler takes a step
HandlerStep ==
    \/ gate_poll
    \/ ready_exists
    \/ \E r \in SyncedResources : ready_stat(r)
    \/ sleep
    \/ \E raises \in BOOLEAN : ingest_copy(raises)
    \/ \E raises \in BOOLEAN : ingest_move(raises)
    \/ \E qfail \in {<<>>, <<"doc">>} : call_process(qfail)
    \/ process_done

\* the pipeline of process() under the watcher: the document is readable and
\* analysed, and a capability fails, if one does, at the OCR
WatcherPipelineStep ==
    \/ \E raises \in BOOLEAN : ocr_process(raises, TRUE)
    \/ extract_text(FALSE, <<"h", "i">>, <<>>)
    \/ analyze(FALSE, [title |-> <<"T">>, date |-> <<2024, 3, 15>>])
    \/ update_pdf(FALSE)
    \/ write_sidecar(FALSE)
    \/ store(FALSE)
    \/ store_sidecar(FALSE)
    \/ store_txt_sidecar(FALSE)
    \/ \E qfail \in {<<>>, <<"doc">>} : except_handler(qfail)

NextWatcher ==
    \/ \E name \in WatchNames : Create(name, FALSE)
    \/ \E name \in WatchNames : Leftover(name)
    \/ \E p \in DOMAIN fs : Vanish(p)
    \/ run_watcher
    \/ \E p \in todo : scan_source_visit(p)
    \/ scan_source_next
    \/ \E p \in todo : scan_pending_visit(p)
    \/ scan_pending_next
    \/ on_created
    \/ propagate
    \/ HandlerStep
    \/ WatcherPipelineStep

SpecWatcher == Init /\ [][NextWatcher]_vars

(* The stability gate of one _handle_file call, under every readiness the
   platform can report *)

\* the path of the creation event
GatePath == Join(paths_source, <<"a", ".", "p", "d", "f">>)

\* on_created called _handle_file on GatePath: the file is there, with or
\* without content, or is already gone
InitGate ==
    /\ ServiceIdle
    /\ SanitizeIdle
    /\ HelperIdle
    /\ CleanupIdle
    /\ \E present \in BOOLEAN, e \in BOOLEAN :
          /\ fs = IF present
                  THEN write(<< >>, GatePath, [kind |-> "doc", n |-> 0])
                  ELSE << >>
          /\ empty = IF present /\ e THEN {0} ELSE {}
    /\ nextId = 1
    /\ now = 0
    /\ wpc = "observing"
    /\ todo = {}
    /\ pattern_i = Len(patterns)
    /\ events = <<>>
    /\ at_start = [source |-> {}, pending |-> {}]
    /\ swept = <<>>
    /\ hpc = "gate"
    /\ hmode = "handle"
    /\ hpath = GatePath
    /\ hruns = 0
    /\ start = 0
    /\ gate = "none"
    /\ probe = <<>>
    /\ timestamp = <<>>
    /\ pending_path = <<>>

NextGate ==
    \/ GateStep
    \/ \E p \in DOMAIN fs : Vanish(p)
    \/ \E p \in DOMAIN fs : Grow(p)
    \/ propagate

SpecGate == InitGate /\ [][NextGate]_vars /\ WF_vars(GateStep)

-----------------------------------------------------------------------------
(* cleanup.py *)

\* DEFAULT_RETENTION_DAYS
DEFAULT_RETENTION_DAYS == 30

\* timedelta(days=1), in seconds
DaySeconds == 86400

\* datetime.now() - timedelta(days=retention_days), in seconds
cutoff_of(t, retention_days) == t - retention_days * DaySeconds

\* path.is_file()
is_file(f, p) == exists(f, p) /\ f[p].kind # "dir"

\* a test that also takes the files of exactly the cutoff's age
is_old_or_at(m, cutoff) == m <= cutoff

\* mtime < cutoff
is_old(m, cutoff) == m < cutoff

\* the paths run_cleanup unlinks: the entries of trash.iterdir() that are
\* files with mtime before the cutoff
cleanup_removes(f, mt, cutoff) ==
    {p \in DOMAIN f : /\ Parent(p) = paths_trash
                      /\ is_file(f, p)
                      /\ is_old(mt[f[p].n], cutoff)}

\* the entries a trash directory may hold: two files, a subdirectory and a
\* file inside the subdirectory; and a file of the staging directory
TrashX == Join(paths_trash, <<"x", ".", "p", "d", "f">>)

TrashY == Join(paths_trash, <<"y", ".", "p", "d", "f">>)

TrashD == Join(paths_trash, <<"d">>)

TrashDZ == Join(TrashD, <<"z", ".", "p", "d", "f">>)

StagedO == Join(paths_pending, <<"o", ".", "p", "d", "f">>)

\* the time of the call: the fortieth day, in seconds
CleanupNow == 40 * DaySeconds

\* the file systems run_cleanup is called on: no trash directory, or one
\* with any of its entries, each file with a modification time just before,
\* at or just after the cutoff
CleanupFiles(cutoff) ==
    LET Ages == {cutoff - 1, cutoff, cutoff + 1}
        entry(p, k, id) == [path |-> p, kind |-> k, n |-> id]
        Candidates == {entry(TrashX, "doc", 1), entry(TrashY, "doc", 2),
                       entry(TrashD, "dir", 3), entry(TrashDZ, "doc", 4)}
        Consistent(S) == entry(TrashDZ, "doc", 4) \in S => entry(TrashD, "dir", 3) \in S
        base == entry(paths_trash, "dir", 0)
        staged == entry(StagedO, "doc", 5)
        AsFs(S) == [p \in {e.path : e \in S} |->
                       LET e == CHOOSE e \in S : e.path = p
                       IN  [kind |-> e.kind, n |-> e.n]]
    IN  { [fs |-> AsFs(S \cup {base, staged}), mtime |-> mt] :
             S \in {T \in SUBSET Candidates : Consistent(T)}, mt \in [0..5 -> Ages] }
        \cup { [fs |-> AsFs({staged}), mtime |-> mt] : mt \in [0..5 -> {cutoff - 1}] }

\* run_cleanup(settings) is about to be called
InitCleanup ==
    /\ ServiceIdle
    /\ SanitizeIdle
    /\ HelperIdle
    /\ WatchIdle
    /\ HandlerIdle
    /\ empty = {}
    /\ nextId = 6
    /\ now = CleanupNow
    /\ \E retention_days \in {1, DEFAULT_RETENTION_DAYS} :
          /\ cleanup_call = <<[retention_days |-> retention_days, ret |-> <<>>]>>
          /\ \E c \in CleanupFiles(cutoff_of(CleanupNow, retention_days)) :
                fs = c.fs /\ mtime = c.mtime

\* run_cleanup(settings) runs and returns
run_cleanup ==
    /\ cleanup_call # <<>> /\ cleanup_call[1].ret = <<>>
    /\ LET cutoff == cutoff_of(now, cleanup_call[1].retention_days)
       IN  IF ~exists(fs, paths_trash)
           THEN /\ fs' = fs
                /\ cleanup_call' = <<[cleanup_call[1] EXCEPT !.ret = <<0>>]>>
           ELSE LET removed == cleanup_removes(fs, mtime, cutoff)
                IN  /\ fs' = [p \in DOMAIN fs \ removed |-> fs[p]]
                    /\ cleanup_call' =
                           <<[cleanup_call[1] EXCEPT !.ret = <<Cardinality(removed)>>]>>
    /\ UNCHANGED <<nextId, stored, adapter_call, process_vars, sanitize_call,
                   helper_call, watcher_vars, mtime>>

SpecCleanup == InitCleanup /\ [][run_cleanup]_vars

-----------------------------------------------------------------------------
(* papertrail/__main__.py: the helpers of the reprocess command *)

\* ord(c), as the place of c among the characters of dates in the order of
\* their code points
Ord(c) ==
    LET DateAlphabet == <<"-", "0", "1", "2", "3", "4", "5", "6", "7", "8", "9">>
    IN  CHOOSE i \in 1..Len(DateAlphabet) : DateAlphabet[i] = c

\* a <= b on str: equal, or less in the lexicographic order
str_le(a, b) ==
    \/ a = b
    \/ \E k \in 1..(Len(b)) :
           /\ k <= Len(a) + 1
           /\ \A j \in 1..(k - 1) : a[j] = b[j]
           /\ k = Len(a) + 1 \/ Ord(a[k]) < Ord(b[k])

\* part.isdigit(), on a part of letters, digits and dots
isdigit(part) ==
    /\ part # <<>>
    /\ \A k \in 1..Len(part) :
          part[k] \in {"0", "1", "2", "3", "4", "5", "6", "7", "8", "9"}

\* in_date_range: its loop over path.parts, from index i on
RECURSIVE in_date_range_from(_, _, _, _)
in_date_range_from(parts, i, start_date, end_date) ==
    IF i > Len(parts) THEN FALSE
    ELSE IF /\ Len(parts[i]) = 4 /\ isdigit(parts[i]) /\ i + 1 <= Len(parts)
            /\ Len(parts[i + 1]) = 2 /\ isdigit(parts[i + 1])
    THEN LET date_str == parts[i] \o <<"-">> \o parts[i + 1] \o <<"-", "0", "1">>
         IN  str_le(start_date, date_str) /\ str_le(date_str, end_date)
    ELSE in_date_range_from(parts, i + 1, start_date, end_date)

\* in_date_range(path, start, end), path given by its parts
in_date_range(parts, start_date, end_date) ==
    in_date_range_from(parts, 1, start_date, end_date)

\* the paths of the PDFs collect_pdfs may return: up to MaxParts folders
\* (years, months, and a name that is neither) and the file
PdfPaths ==
    LET FolderNames ==
            { <<"2", "0", "2", "4">>, <<"2", "0", "2", "3">>,
              <<"0", "3">>, <<"0", "2">>, <<"0", "4">>,
              <<"a", "b">> }
    IN  { dirs \o << <<"x", ".", "p", "d", "f">> >> :
              dirs \in UNION { [1..n -> FolderNames] : n \in 0..MaxParts } }

\* the ranges parse_date_range may return, [start, end]
DateRanges ==
    { << <<"2", "0", "2", "4", "-", "0", "3", "-", "0", "1">>,
         <<"2", "0", "2", "4", "-", "0", "3", "-", "3", "1">> >>,
      << <<"2", "0", "2", "4", "-", "0", "3", "-", "1", "5">>,
         <<"2", "0", "2", "4", "-", "0", "3", "-", "3", "1">> >>,
      << <<"2", "0", "2", "3", "-", "0", "4", "-", "0", "1">>,
         <<"2", "0", "2", "4", "-", "0", "2", "-", "2", "9">> >> }

\* in_date_range(path, start, end) is about to be called
InitDateRange ==
    /\ PipelineInit
    /\ SanitizeIdle
    /\ CleanupIdle
    /\ WatcherIdle
    /\ \E parts \in PdfPaths, r \in DateRanges :
          helper_call = <<[fn |-> "in_date_range", path |-> parts,
                           start |-> r[1], end |-> r[2], ret |-> <<>>]>>

\* in_date_range(path, start, end) returns
call_in_date_range ==
    /\ helper_call # <<>> /\ helper_call[1].fn = "in_date_range"
    /\ helper_call[1].ret = <<>>
    /\ helper_call' =
           <<[helper_call[1] EXCEPT
                 !.ret = <<in_date_range(helper_call[1].path, helper_call[1].start,
                                         helper_call[1].end)>>]>>
    /\ UNCHANGED <<fs, nextId, stored, adapter_call, process_vars, sanitize_call,
                   watcher_vars, cleanup_vars>>

SpecDateRange == InitDateRange /\ [][call_in_date_range]_vars

-----------------------------------------------------------------------------
(* adapters/llm/validation.py and the _parse_response of the adapters *)

\* The values json.loads yields: [t, v] with t the type and v the value (the
\* characters of a str, the number, the truth value, the length of a list,
\* the keys and values of an object; 0 for null)
J(type, value) == [t |-> type, v |-> value]

\* bool(x): the truth value Python gives a value
truthy(x) ==
    CASE x.t = "null" -> FALSE
      [] x.t = "str" -> x.v # <<>>
      [] x.t = "num" -> x.v # 0
      [] x.t = "bool" -> x.v
      [] x.t = "list" -> x.v > 0
      [] OTHER -> DOMAIN x.v # {}

\* data.get(key, default) on a dict
get(data, key, default) == IF key \in DOMAIN data.v THEN data.v[key] ELSE default

\* the characters _SUSPICIOUS_PATTERN matches one by one: the braces, the
\* angle brackets, the backtick and the control characters (here the line
\* feed and NUL)
SuspiciousChars == {"{", "}", "<", ">", "BACKTICK", "LF", "NUL"}

\* looks_suspicious(text), text a str
looks_suspicious(s) ==
    IF s = <<>> THEN FALSE
    ELSE \/ \E k \in 1..Len(s) : s[k] \in SuspiciousChars
         \/ \E k \in 1..(Len(s) - 2) : SubSeq(s, k, k + 2) = <<".", ".", "/">>

\* sanitize_field(text, fallback): what it returns, or the exception of
\* _SUSPICIOUS_PATTERN.search on a value that is no str
sanitize_field(x, fallback) ==
    IF ~truthy(x) THEN [raised |-> <<>>, ret |-> <<J("str", fallback)>>]
    ELSE IF x.t # "str" THEN [raised |-> <<"TypeError">>, ret |-> <<>>]
    ELSE IF looks_suspicious(x.v) THEN [raised |-> <<>>, ret |-> <<J("str", fallback)>>]
    ELSE [raised |-> <<>>, ret |-> <<x>>]

\* the number a str of digits stands for
RECURSIVE int(_)
int(s) ==
    IF s = <<>> THEN 0
    ELSE int(SubSeq(s, 1, Len(s) - 1)) * 10 + (CHOOSE d \in 0..9 : Digit(d) = s[Len(s)])

\* date.fromisoformat(s) on YYYY-MM-DD: <<date>>, or <<>> for ValueError
fromisoformat(s) ==
    IF /\ Len(s) = 10
       /\ s[5] = "-" /\ s[8] = "-"
       /\ isdigit(SubSeq(s, 1, 4)) /\ isdigit(SubSeq(s, 6, 7)) /\ isdigit(SubSeq(s, 9, 10))
       /\ int(SubSeq(s, 1, 4)) >= 1
       /\ int(SubSeq(s, 6, 7)) \in 1..12
       /\ int(SubSeq(s, 9, 10)) \in 1..28
    THEN << <<int(SubSeq(s, 1, 4)), int(SubSeq(s, 6, 7)), int(SubSeq(s, 9, 10))>> >>
    ELSE <<>>

\* DocumentInfo(title, subject, issuer, summary, date)
DocumentInfo(title, subject, issuer, summary, date) ==
    [title |-> title, subject |-> subject, issuer |-> issuer, summary |-> summary,
     date |-> date]

\* _parse_response(text), text given by what json.loads makes of it:
\* [valid, data], valid FALSE for JSONDecodeError. The result is the record
\* it returns, or the exception that leaves it.
parse_response(response) ==
    IF ~response.valid
    THEN [raised |-> <<>>,
          ret |-> <<DocumentInfo(J("str", <<"U", "n", "t", "i", "t", "l", "e", "d">>),
                                 J("str", <<>>),
                                 J("str", <<"U", "n", "k", "n", "o", "w", "n">>),
                                 J("str", <<>>), <<>>)>>]
    ELSE LET data     == response.data
             date_str == get(data, "date", J("null", 0))
             title    == sanitize_field(get(data, "title", J("null", 0)),
                                        <<"U", "n", "t", "i", "t", "l", "e", "d">>)
             subject  == sanitize_field(get(data, "subject", J("null", 0)), <<>>)
             issuer   == sanitize_field(get(data, "issuer", J("null", 0)),
                                        <<"U", "n", "k", "n", "o", "w", "n">>)
             doc_date == IF /\ truthy(date_str)
                            /\ lower(date_str.v) \notin
                                  { <<"n", "u", "l", "l">>,
                                    <<"u", "n", "k", "n", "o", "w", "n">>,
                                    <<"n", "o", "n", "e">> }
                         THEN fromisoformat(date_str.v)
                         ELSE <<>>
         IN  IF data.t # "object"
             THEN [raised |-> <<"AttributeError">>, ret |-> <<>>]
             ELSE IF truthy(date_str) /\ date_str.t # "str"
             THEN [raised |-> <<"AttributeError">>, ret |-> <<>>]
             ELSE IF title.raised # <<>> THEN title
             ELSE IF subject.raised # <<>> THEN subject
             ELSE IF issuer.raised # <<>> THEN issuer
             ELSE [raised |-> <<>>,
                   ret |-> <<DocumentInfo(title.ret[1], subject.ret[1], issuer.ret[1],
                                          get(data, "summary", J("str", <<>>)), doc_date)>>]

\* the responses: text that is no JSON, JSON that is no object, and the JSON
\* objects with any of the keys title, summary and date, each with any of
\* the values a model may give a text field or the date
Responses ==
    LET FieldValues ==
            { J("null", 0), J("str", <<>>), J("str", <<"T">>),
              J("str", <<".", ".", "/", "x">>), J("str", <<"<", "b", ">">>),
              J("num", 5) }
        DateValues ==
            { J("null", 0), J("str", <<>>),
              J("str", <<"2", "0", "2", "4", "-", "0", "3", "-", "1", "5">>),
              J("str", <<"s", "o", "o", "n">>), J("str", <<"n", "u", "l", "l">>),
              J("num", 5) }
        ResponseObjects ==
            { J("object", f) :
                f \in UNION { [K -> FieldValues \cup DateValues] :
                                K \in SUBSET {"title", "summary", "date"} } }
    IN  { [valid |-> FALSE, data |-> J("null", 0)] }
        \cup { [valid |-> TRUE, data |-> d] :
                 d \in {J("null", 0), J("str", <<"T">>), J("num", 5),
                        J("list", 0), J("list", 1)} }
        \cup { [valid |-> TRUE, data |-> d] : d \in ResponseObjects }

\* _parse_response(text) is about to be called
InitParse ==
    /\ PipelineInit
    /\ SanitizeIdle
    /\ CleanupIdle
    /\ WatcherIdle
    /\ \E r \in Responses :
          helper_call = <<[fn |-> "_parse_response", response |-> r,
                           raised |-> <<>>, ret |-> <<>>]>>

\* _parse_response(text) returns or raises
call_parse_response ==
    /\ helper_call # <<>> /\ helper_call[1].fn = "_parse_response"
    /\ helper_call[1].ret = <<>> /\ helper_call[1].raised = <<>>
    /\ LET r == parse_response(helper_call[1].response)
       IN  helper_call' =
              <<[helper_call[1] EXCEPT !.raised = r.raised, !.ret = r.ret]>>
    /\ UNCHANGED <<fs, nextId, stored, adapter_call, process_vars, sanitize_call,
                   watcher_vars, cleanup_vars>>

SpecParse == InitParse /\ [][call_parse_response]_vars

-----------------------------------------------------------------------------
(* run_watcher: the wait on the observer and the shutdown *)

\* KeyboardInterrupt is raised in the main thread while it waits in the loop
\* of observer.join(timeout=1): the except clause is entered
interrupt_in_loop ==
    /\ wpc = "observing"
    /\ wpc' = "stopping"
    /\ UNCHANGED <<fs, nextId, stored, adapter_call, process_vars, sanitize_call,
                   helper_call, cleanup_vars, now, empty, todo, pattern_i, events,
                   at_start, swept, handler_vars>>

\* observer.stop(): the observer's thread is told to end; it dispatches no
\* further event
observer_stop ==
    /\ wpc = "stopping"
    /\ wpc' = "joining"
    /\ UNCHANGED <<fs, nextId, stored, adapter_call, process_vars, sanitize_call,
                   helper_call, cleanup_vars, now, empty, todo, pattern_i, events,
                   at_start, swept, handler_vars>>

\* observer.join() returns, once the observer's thread has ended, which it
\* does after the handler call in progress; run_watcher returns
observer_join ==
    /\ wpc = "joining" /\ hpc = "idle"
    /\ wpc' = "returned"
    /\ UNCHANGED <<fs, nextId, stored, adapter_call, process_vars, sanitize_call,
                   helper_call, cleanup_vars, now, empty, todo, pattern_i, events,
                   at_start, swept, handler_vars>>

\* KeyboardInterrupt is raised in the main thread inside the except clause
\* or in the final observer.join(), outside the try: it leaves run_watcher and
\* the process exits, its daemon threads with it
interrupt_in_shutdown ==
    /\ wpc \in {"stopping", "joining"}
    /\ wpc' = "interrupted"
    /\ UNCHANGED <<fs, nextId, stored, adapter_call, process_vars, sanitize_call,
                   helper_call, cleanup_vars, now, empty, todo, pattern_i, events,
                   at_start, swept, handler_vars>>

NextShutdown ==
    \/ \E e \in BOOLEAN : Create(<<"a", ".", "p", "d", "f">>, e)
    \/ \E p \in DOMAIN fs : Grow(p)
    \/ run_watcher
    \/ \E p \in todo : scan_source_visit(p)
    \/ scan_source_next
    \/ scan_pending_next
    \/ on_created
    \/ wpc \notin {"returned", "interrupted"} /\ HandlerStep
    \/ wpc \notin {"returned", "interrupted"} /\ WatcherPipelineStep
    \/ interrupt_in_loop
    \/ observer_stop
    \/ observer_join
    \/ interrupt_in_shutdown

SpecShutdown == Init /\ [][NextShutdown]_vars

-----------------------------------------------------------------------------
(* run_watcher while files arrive: the sweep, then the observer, each step
   eventually taken *)

\* run_watcher, its sweep, the observer's handler and the pipeline take a step
WatcherRuns ==
    \/ run_watcher
    \/ \E p \in todo : scan_source_visit(p)
    \/ scan_source_next
    \/ scan_pending_next
    \/ on_created
    \/ HandlerStep
    \/ WatcherPipelineStep

NextArrivals ==
    \/ \E e \in BOOLEAN : Create(<<"a", ".", "p", "d", "f">>, e)
    \/ \E p \in DOMAIN fs : Grow(p)
    \/ WatcherRuns

SpecArrivals == Init /\ [][NextArrivals]_vars /\ WF_vars(WatcherRuns)

-----------------------------------------------------------------------------
(* The watcher killed while it handles a file, and started again *)

\* the process of the watcher is killed during a handler call: what it held
\* in memory is gone (the sweep's position, the queue of events, the
\* position of the handler and of process()), the files stay as they are,
\* and run_watcher can be called again
kill ==
    /\ wpc \in {"scan_source", "scan_pending", "observing"}
    /\ hpc # "idle"
    /\ nextId < MaxFiles
    /\ wpc' = "off"
    /\ hpc' = "idle"
    /\ pc' = "idle"
    /\ events' = <<>>
    /\ todo' = {}
    /\ UNCHANGED <<fs, nextId, stored, adapter_call, runs, path, doc, keep,
                   quarantine_dir, result, text, info, yaml_sidecar, exc, calls,
                   sanitize_call, helper_call, cleanup_vars, now, empty, pattern_i,
                   at_start, swept, hmode, hpath, hruns, start, gate, probe,
                   timestamp, pending_path>>

\* the handler on a file that is complete and stays where it is: the gate
\* admits it and _ingest does not raise
RecoveryHandlerStep ==
    \/ gate_poll
    \/ ready_exists
    \/ \E r \in SyncedResources : ready_stat(r)
    \/ ingest_copy(FALSE)
    \/ ingest_move(FALSE)
    \/ call_process(<<>>)
    \/ process_done

\* the pipeline of process() with a storage that does not fail: the
\* document is archived, or quarantined when the OCR raises
RecoveryPipelineStep ==
    \/ \E raises \in BOOLEAN : ocr_process(raises, TRUE)
    \/ extract_text(FALSE, <<"h", "i">>, <<>>)
    \/ analyze(FALSE, [title |-> <<"T">>, date |-> <<2024, 3, 15>>])
    \/ update_pdf(FALSE)
    \/ write_sidecar(FALSE)
    \/ store(FALSE)
    \/ store_sidecar(FALSE)
    \/ store_txt_sidecar(FALSE)
    \/ except_handler(<<>>)

NextRecovery ==
    \/ Create(<<"a", ".", "p", "d", "f">>, FALSE)
    \/ run_watcher
    \/ \E p \in todo : scan_source_visit(p)
    \/ scan_source_next
    \/ \E p \in todo : scan_pending_visit(p)
    \/ scan_pending_next
    \/ on_created
    \/ RecoveryHandlerStep
    \/ RecoveryPipelineStep
    \/ kill

SpecRecovery == Init /\ [][NextRecovery]_vars

-----------------------------------------------------------------------------
(* Claims *)

\* the call log's entries for one capability
CallsOf(name) == {k \in 1..Len(calls) : calls[k].call = name}

\* the capability calls of the pipeline proper (everything but quarantine)
PipelineCalls(log) == SelectSeq(log, LAMBDA c : c.call # "storage.quarantine")

\* storage.quarantine was invoked on the source document
QuarantineInvokedOnSource ==
    \E k \in CallsOf("storage.quarantine") : calls[k].arg = path

Finished == pc \in {"returned", "raised"} /\ runs > 0

\* C1: process never raises: whatever capability call raises (storage.quarantine
\* included), the call of process ends by returning its result, never by an
\* exception leaving it, and the failure handled by the except clause is a
\* string of result.errors.
C1_ProcessNeverRaises ==
    [][ /\ pc' # "raised"
        /\ (pc = "except" =>
                \E k \in 1..Len(result'.errors) : result'.errors[k] = exc[1]) ]_vars

\* C2: in every reachable state (the result freshly created, partly filled
\* during a run, returned), success is true if and only if errors is empty and
\* document_info is not null; no errors and no document_info is not a success,
\* a document_info with at least one error is not a success.
C2_SuccessDefinition ==
    /\ success(result) <=> (result.errors = <<>> /\ result.document_info # <<>>)
    /\ (result.errors = <<>> /\ result.document_info = <<>>) => ~success(result)
    /\ (result.document_info # <<>> /\ result.errors # <<>>) => ~success(result)

\* a returned result that has a document_info and an error
C2_Witness ==
    /\ pc = "returned"
    /\ result.document_info # <<>>
    /\ result.errors # <<>>
    /\ ~success(result)

\* the document of the current run lies in the quarantine directory, at the
\* path result.output_path names
QuarantinedAtOutputPath ==
    /\ result.output_path # <<>>
    /\ Parent(result.output_path[1]) = paths_quarantine
    /\ exists(fs, result.output_path[1])
    /\ fs[result.output_path[1]] = doc

\* process(path, keep=false) of a service with a quarantine directory has
\* returned an unsuccessful result
UnsuccessfulReturn ==
    /\ pc = "returned" /\ runs > 0
    /\ quarantine_dir # <<>> /\ ~keep
    /\ ~success(result)

C4_QuarantineIffGate ==
    /\ QuarantineInvokedOnSource =>
           quarantine_dir # <<>> /\ ~success(result) /\ doc \notin stored
    /\ Finished =>
           (QuarantineInvokedOnSource <=>
                quarantine_dir # <<>> /\ ~success(result) /\ doc \notin stored)
    /\ (Finished /\ success(result)) => CallsOf("storage.quarantine") = {}
    /\ quarantine_dir = <<>> => CallsOf("storage.quarantine") = {}
    /\ doc \in stored => CallsOf("storage.quarantine") = {}

\* a run that failed after analyze has ended with the document quarantined,
\* the storage.quarantine call having returned
C4_Witness ==
    /\ pc = "returned" /\ runs > 0
    /\ result.document_info # <<>>
    /\ \E k \in CallsOf("storage.quarantine") :
           calls[k].arg = path /\ ~calls[k].raised

\* the names whose extension is not .pdf in any spelling, each with the
\* suffix the error message quotes
NonPdfSuffixes ==
    { [name |-> <<"n", ".", "d", "o", "c">>,      suffix |-> <<".", "d", "o", "c">>],
      [name |-> <<"n">>,                          suffix |-> <<>>],
      [name |-> <<".", "p", "d", "f">>,           suffix |-> <<>>],
      [name |-> <<"n", ".", "p", "d", "f", "x">>, suffix |-> <<".", "p", "d", "f", "x">>] }

\* the names whose extension is .pdf in some spelling
PdfSpellings ==
    { <<"a", ".", "p", "d", "f">>, <<"a", ".", "P", "D", "F">>, <<"a", ".", "P", "d", "f">> }

\* no capability of the pipeline was invoked and the only error is the
\* rejection of the suffix
RejectedAs(suffix) ==
    /\ PipelineCalls(calls) = <<>>
    /\ result.errors = << <<"Unsupported file type: ">> \o suffix >>
    /\ result.document_info = <<>>
    /\ ~success(result)

\* the run was not rejected for its file type: it went on to ocr.process
NotRejected ==
    /\ \A k \in 1..Len(result.errors) : result.errors[k][1] # "Unsupported file type: "
    /\ pc = "ocr" \/ (calls # <<>> /\ calls[1].call = "ocr.process")

\* C5: for a path whose extension, compared case-insensitively, is not .pdf,
\* process invokes none of ocr.process, ocr.extract_text, llm.analyze,
\* metadata.update_pdf, metadata.write_sidecar, storage.store and returns an
\* unsuccessful result whose only error is 'Unsupported file type: <suffix>';
\* a path ending in .PDF or .Pdf is not rejected.
C5_NonPdfRejected ==
    runs > 0 =>
        /\ \A e \in NonPdfSuffixes :
               Name(path) = e.name => (pc = "returned" /\ RejectedAs(e.suffix))
        /\ Name(path) \in PdfSpellings => NotRejected

\* ocr.extract_text returned an empty or whitespace-only string in this run
BlankTextExtracted ==
    \E k \in CallsOf("ocr.extract_text") : ~calls[k].raised /\ IsBlank(calls[k].ret[1])

\* C6: when ocr.extract_text returns an empty or whitespace-only string,
\* process records text_length as the length of that string, returns an
\* unsuccessful result with the single error 'No text extracted from document'
\* and a null document_info, and never invokes llm.analyze,
\* metadata.update_pdf, metadata.write_sidecar or storage.store.
C6_BlankTextTerminal ==
    (runs > 0 /\ BlankTextExtracted) =>
        /\ \A k \in 1..Len(calls) :
               calls[k].call \in {"ocr.process", "ocr.extract_text", "storage.quarantine"}
        /\ pc = "returned" =>
               /\ result.text_length = Len(text[1])
               /\ result.errors = << <<"No text extracted from document">> >>
               /\ result.document_info = <<>>
               /\ ~success(result)

\* the fixed order of the pipeline's capability calls
FixedSequence ==
    << "ocr.process", "ocr.extract_text", "llm.analyze", "metadata.update_pdf",
       "metadata.write_sidecar", "storage.store", "storage.store_sidecar",
       "storage.store_sidecar" >>

\* the argument each call of the fixed sequence is made with
FixedArgument(k) ==
    CASE k \in {1, 2, 4, 5, 6} -> path
      [] k = 3 -> text[1]
      [] k = 7 -> with_suffix(path, YAML)
      [] k = 8 -> with_suffix(path, TXT)

\* C7: in a run of process on a PDF the capability calls made so far are a
\* prefix of ocr.process, ocr.extract_text, llm.analyze, metadata.update_pdf,
\* metadata.write_sidecar, storage.store, storage.store_sidecar(structured
\* sidecar), storage.store_sidecar(text sidecar); a call that raised is the
\* last call of that sequence, and only storage.quarantine calls follow it.
C7_FixedOrder ==
    (runs > 0 /\ lower(Suffix(path)) = PDF) =>
        LET made == PipelineCalls(calls)
        IN  /\ Len(made) <= Len(FixedSequence)
            /\ \A k \in 1..Len(made) :
                   /\ made[k].call = FixedSequence[k]
                   /\ made[k].arg = FixedArgument(k)
                   /\ made[k].raised => k = Len(made)
            /\ \A k \in 1..Len(calls) :
                   calls[k].call = "storage.quarantine" =>
                       \A j \in 1..Len(calls) :
                           (j > k) => calls[j].call = "storage.quarantine"
            /\ \A k \in 1..Len(calls) :
                   calls[k].raised =>
                       \A j \in 1..Len(calls) :
                           (j > k) => calls[j].call = "storage.quarantine"

\* a run that went through the whole sequence, the text sidecar included
C7_Witness ==
    /\ pc = "returned" /\ runs > 0
    /\ Len(PipelineCalls(calls)) = 8
    /\ \A k \in 1..Len(calls) : ~calls[k].raised

\* process(path, keep=true) has returned
KeepReturn == pc = "returned" /\ runs > 0 /\ keep

\* C8 as stated: for every call process(path, keep=true), storage.store and
\* storage.store_sidecar are never invoked and the returned result's
\* output_path is the input path, its sidecar_path the path write_sidecar
\* returned.
C8_KeepOutputIsInput ==
    /\ (runs > 0 /\ keep) =>
           CallsOf("storage.store") \cup CallsOf("storage.store_sidecar") = {}
    /\ KeepReturn =>
           /\ result.output_path = <<path>>
           /\ \E k \in CallsOf("metadata.write_sidecar") :
                  ~calls[k].raised /\ result.sidecar_path = calls[k].ret

\* C8: for every call process(path, keep=true), storage.store and
\* storage.store_sidecar are never invoked; when the returned result is
\* successful its output_path is the input path and its sidecar_path the path
\* write_sidecar returned, the document still being at the input path; when
\* it is unsuccessful its sidecar_path is null and its output_path is null,
\* or the quarantine destination if the service has a quarantine directory.
C8_KeepInPlace ==
    /\ (runs > 0 /\ keep) =>
           CallsOf("storage.store") \cup CallsOf("storage.store_sidecar") = {}
    /\ KeepReturn =>
           IF success(result)
           THEN /\ result.output_path = <<path>>
                /\ exists(fs, path) /\ fs[path] = doc
                /\ \E k \in CallsOf("metadata.write_sidecar") :
                       ~calls[k].raised /\ result.sidecar_path = calls[k].ret
           ELSE /\ result.sidecar_path = <<>>
                /\ IF quarantine_dir = <<>>
                   THEN result.output_path = <<>>
                   ELSE QuarantinedAtOutputPath

\* a successful run with keep = true
C8_Witness ==
    /\ KeepReturn
    /\ success(result)
    /\ result.output_path = <<path>>
    /\ Len(PipelineCalls(calls)) = 5

\* the record llm.analyze returned in this run: <<>> when it was not reached
\* or raised
AnalyzeRecord ==
    IF \E k \in CallsOf("llm.analyze") : ~calls[k].raised
    THEN calls[CHOOSE k \in CallsOf("llm.analyze") : ~calls[k].raised].ret
    ELSE <<>>

\* C9: if llm.analyze returned a record during process, the returned
\* result.document_info is that record even when update_pdf, write_sidecar,
\* store or store_sidecar subsequently failed; document_info is null on
\* return exactly when analyze was not reached or itself raised.
C9_DocumentInfoKept ==
    (pc = "returned" /\ runs > 0) =>
        /\ result.document_info = AnalyzeRecord
        /\ result.document_info = <<>> <=>
               \A k \in CallsOf("llm.analyze") : calls[k].raised

\* a returned result that carries the analysed record although a later step
\* failed
C9_Witness ==
    /\ pc = "returned" /\ runs > 0
    /\ result.document_info # <<>>
    /\ result.document_info = AnalyzeRecord
    /\ \E k \in 1..Len(calls) :
           calls[k].raised /\ calls[k].call \in {"metadata.update_pdf",
               "metadata.write_sidecar", "storage.store", "storage.store_sidecar"}

\* the archive directory base/<YYYY>/<MM> of the two dates a record can give:
\* its own, 2024-03-15, or today's, 2024-12-05
ArchiveDirOf(i) ==
    IF i.date = <<>>
    THEN <<"/", "b", "/", "2", "0", "2", "4", "/", "1", "2">>
    ELSE <<"/", "b", "/", "2", "0", "2", "4", "/", "0", "3">>

IsoDateOf(i) ==
    IF i.date = <<>>
    THEN <<"2", "0", "2", "4", "-", "1", "2", "-", "0", "5">>
    ELSE <<"2", "0", "2", "4", "-", "0", "3", "-", "1", "5">>

\* the extension of the stored file
ExtensionOf(p) ==
    IF Name(p) = <<"a", ".", "p", "d", "f">>
    THEN <<".", "p", "d", "f">>
    ELSE <<".", "d", "o", "c">>

\* '<sanitized title> - <ISO date><ext>' in the archive directory; both
\* titles, "T" and "T/", sanitize to "T"
PlainName(p, i) ==
    ArchiveDirOf(i) \o <<"/", "T", " ", "-", " ">> \o IsoDateOf(i) \o ExtensionOf(p)

\* the same name with ' (k)' before the extension
NumberedName(p, i, k) ==
    ArchiveDirOf(i) \o <<"/", "T", " ", "-", " ">> \o IsoDateOf(i)
        \o <<" ", "(", <<"1", "2", "3", "4", "5">>[k], ")">> \o ExtensionOf(p)

\* the files of the archive
ArchiveFiles == {p \in DOMAIN fs : Parent(p) # paths_pending}

\* a store call whose file went to the plain name when it was free and
\* otherwise to the numbered name of the smallest free k, a name nothing had,
\* with no other file touched
StoredAsClaimed ==
    LET c == adapter_call'[1]
    IN  /\ IF PlainName(c.path, c.info) \notin DOMAIN fs
           THEN c.dest = PlainName(c.path, c.info)
           ELSE \E k \in 1..5 :
                    /\ c.dest = NumberedName(c.path, c.info, k)
                    /\ \A j \in 1..(k - 1) : NumberedName(c.path, c.info, j) \in DOMAIN fs
        /\ c.dest \notin DOMAIN fs
        /\ c.dest \in DOMAIN fs' /\ fs'[c.dest] = fs[c.path]
        /\ c.path \notin DOMAIN fs'
        /\ \A q \in DOMAIN fs \ {c.path} : q \in DOMAIN fs' /\ fs'[q] = fs[q]

\* C10: FilesystemAdapter.store moves the file to
\* base/<YYYY>/<MM>/'<sanitized title> - <ISO date><ext>' (the record's date,
\* or today's when it has none) when that name is free, otherwise to the same
\* name with ' (k)' before the extension for the smallest free k >= 1; it
\* never overwrites an archive file, so after n stores, records with the same
\* sanitized title and date included, the archive holds n distinct files.
C10_StoreNaming ==
    /\ [][stored' # stored => StoredAsClaimed]_vars
    /\ [](/\ Cardinality(ArchiveFiles) = Cardinality(stored)
          /\ \A d \in stored : \E p \in ArchiveFiles : fs[p] = d)

\* a third file of the same title, date and extension was stored as ' (2)'
C10_Witness ==
    /\ adapter_call # <<>>
    /\ \E i \in Infos, p \in {adapter_call[1].path} :
           /\ adapter_call[1].dest = NumberedName(p, i, 2)
           /\ NumberedName(p, i, 1) \in DOMAIN fs
           /\ PlainName(p, i) \in DOMAIN fs
    /\ Cardinality(stored) = 3

\* process(path, keep=false) has returned a successful result
ArchivedReturn == pc = "returned" /\ runs > 0 /\ ~keep /\ success(result)

\* the archived document's path with its four-character extension replaced
ArchivedAs(ext) ==
    SubSeq(result.output_path[1], 1, Len(result.output_path[1]) - 4) \o ext

\* the original locations of the two sidecars, next to the input path
OriginalSidecar(ext) == SubSeq(path, 1, Len(path) - 4) \o ext

\* C11: after a successful process(path, keep=false) the structured sidecar
\* lies next to the archived document under the archived base name
\* (result.sidecar_path is result.output_path with only the extension
\* replaced), a text sidecar that existed has been moved to
\* result.output_path with extension .txt, and neither sidecar remains at its
\* original location.
C11_SidecarsFollowArchive ==
    /\ [](ArchivedReturn =>
            /\ result.sidecar_path = <<ArchivedAs(<<".", "y", "a", "m", "l">>)>>
            /\ ArchivedAs(<<".", "y", "a", "m", "l">>) \in DOMAIN fs
            /\ fs[ArchivedAs(<<".", "y", "a", "m", "l">>)] = [kind |-> "yaml", n |-> doc.n]
            /\ result.output_path[1] \in DOMAIN fs
            /\ fs[result.output_path[1]] = doc
            /\ OriginalSidecar(<<".", "y", "a", "m", "l">>) \notin DOMAIN fs
            /\ OriginalSidecar(<<".", "t", "x", "t">>) \notin DOMAIN fs)
    /\ [][(ArchivedReturn' /\ pc # "returned") =>
            IF OriginalSidecar(<<".", "t", "x", "t">>) \in DOMAIN fs
            THEN /\ ArchivedAs(<<".", "t", "x", "t">>) \in DOMAIN fs'
                 /\ fs'[ArchivedAs(<<".", "t", "x", "t">>)] =
                        fs[OriginalSidecar(<<".", "t", "x", "t">>)]
            ELSE pc = "store_sidecar"]_vars
    /\ [][(pc = "store_sidecar" /\ OriginalSidecar(<<".", "t", "x", "t">>) \in DOMAIN fs)
              => pc' \in {"store_txt", "except"}]_vars

\* a successful run whose document took a numbered archive name, with both
\* sidecars stored next to it
C11_Witness ==
    /\ ArchivedReturn
    /\ Len(PipelineCalls(calls)) = 8
    /\ result.output_path[1][Len(result.output_path[1]) - 4] = ")"
    /\ ArchivedAs(<<".", "t", "x", "t">>) \in DOMAIN fs

\* sanitize_filename has returned
Sanitized == sanitize_call # <<>> /\ sanitize_call[1].ret # <<>>

\* C12: sanitize_filename is idempotent: for any input x, names longer than
\* max_length that get truncated included,
\* sanitize_filename(sanitize_filename(x)) = sanitize_filename(x).
C12_SanitizeIdempotent ==
    Sanitized =>
        sanitize_filename(sanitize_call[1].ret[1], sanitize_call[1].max_length)
            = sanitize_call[1].ret[1]

\* s contains the two characters c, d next to each other
HasPair(s, c, d) == \E k \in 1..(Len(s) - 1) : s[k] = c /\ s[k + 1] = d

\* the archive file name store builds from a sanitized title
ArchiveNameOf(title) ==
    title \o <<" ", "-", " ", "2", "0", "2", "4", "-", "1", "2", "-", "0", "5",
              ".", "p", "d", "f">>

\* C13: for every input the output of sanitize_filename contains no null
\* byte, no '..' and none of the characters < > : " / \ | ? *, so the archive
\* destination built from it is a file directly in base/<YYYY>/<MM>/.
C13_SanitizeNeutralizes ==
    Sanitized =>
        LET out == sanitize_call[1].ret[1]
            dir == <<"/", "b", "/", "2", "0", "2", "4", "/", "1", "2">>
        IN  /\ \A k \in 1..Len(out) :
                   out[k] \notin {"NUL", "<", ">", ":", "\"", "/", "\\", "|", "?", "*"}
            /\ ~HasPair(out, ".", ".")
            /\ Parent(Join(dir, ArchiveNameOf(out))) = dir
            /\ Name(Join(dir, ArchiveNameOf(out))) = ArchiveNameOf(out)

\* a title with a path-traversal sequence, a slash and a null byte was sanitized
C13_Witness ==
    /\ Sanitized
    /\ HasPair(sanitize_call[1].name, ".", ".")
    /\ \E k \in 1..Len(sanitize_call[1].name) : sanitize_call[1].name[k] = "/"
    /\ \E k \in 1..Len(sanitize_call[1].name) : sanitize_call[1].name[k] = "NUL"
    /\ HasPair(sanitize_call[1].ret[1], "a", " ")

\* the name as the cleaning steps leave it, before its length is capped
Cleaned ==
    strip(Collapse(ReplaceProblematic(ReplaceDotDot(RemoveNull(sanitize_call[1].name)))),
          {".", " "})

\* the returned name is not empty, not longer than max_length, does not end
\* in a space, and is 'Untitled' when the input has nothing but dots, spaces,
\* forbidden characters and null bytes
SanitizedWithinCap ==
    LET out == sanitize_call[1].ret[1]
    IN  /\ out # <<>>
        /\ Len(out) <= sanitize_call[1].max_length
        /\ out[Len(out)] # " "
        /\ (\A k \in 1..Len(sanitize_call[1].name) : sanitize_call[1].name[k] # "a")
               => out = <<"U", "n", "t", "i", "t", "l", "e", "d">>
        /\ sanitize_call[1].name \in {<<>>, <<" ", " ", " ">>, <<".", ".", ".">>}
               => out = <<"U", "n", "t", "i", "t", "l", "e", "d">>

\* out is the cleaned name up to, not including, a space
CutAtWordBoundary(cleaned, out) ==
    /\ out = SubSeq(cleaned, 1, Len(out))
    /\ cleaned[Len(out) + 1] = " "

-----------------------------------------------------------------------------
(* The watcher *)

\* the files of the quarantine directory
Quarantined(f) == {p \in DOMAIN f : Parent(p) = paths_quarantine}

\* this step is the call of process() by _handle_file
ProcessInvokedByHandler == hmode = "handle" /\ runs' = runs + 1

\* this step is the return of _handle_file before it called process(): the
\* gate rejected the file, or _ingest raised
ReturnsBeforeProcess ==
    /\ hmode = "handle"
    /\ hpc \in {"gate", "timeout_exists", "timeout_stat", "ingest_copy", "ingest_move"}
    /\ hpc' = "idle"

\* C15: when _handle_file calls process(), the gate has admitted the file,
\* _ingest has copied it into the staging directory and moved the original
\* into the trash, and process() is called on the staged copy, not on the
\* source file; when the gate rejects the file or _ingest raises, process()
\* has not been called, there is no result and nothing is quarantined.
C15_ProcessOnlyAfterIngest ==
    [][ /\ ProcessInvokedByHandler =>
              /\ gate \in {"ready", "timeout"}
              /\ exists(fs, pending_path)
              /\ Parent(pending_path) = paths_pending
              /\ ~exists(fs, hpath)
              /\ exists(fs, trash_path(hpath, timestamp))
              /\ path' = pending_path
              /\ path' # hpath
        /\ ReturnsBeforeProcess =>
              /\ runs' = hruns
              /\ result' = result
              /\ calls' = calls
              /\ Quarantined(fs') = Quarantined(fs)
        /\ (hmode = "handle" /\ gate \notin {"ready", "timeout"}) => runs' = hruns
      ]_vars

\* process() was called by _handle_file on the staged copy of an admitted file
C15_Witness ==
    /\ hmode = "handle" /\ hpc = "process"
    /\ runs = hruns + 1
    /\ gate = "ready"
    /\ path = pending_path
    /\ Parent(hpath) = paths_source

\* C16: a step of _ingest leaves every file other than the source file where
\* it is and as it is: the staged copy and the trash file are new files, also
\* when a file of the same name arrived before, within the same clock second
\* or while a file of that name is still staged.
C16_IngestNeverOverwrites ==
    [][ (hpc = "ingest_copy" \/ hpc = "ingest_move") =>
            (\A p \in DOMAIN fs \ {hpath} : exists(fs', p) /\ fs'[p] = fs[p])
      ]_vars

\* _wait_for_stability is running
InGate == hpc \in {"gate", "ready_exists", "ready_stat", "sleep", "timeout_exists",
                   "timeout_stat"}

\* this step is the gate admitting the file
Admits == InGate /\ gate' \in {"ready", "timeout"} /\ gate' # gate

\* the file of the handled path exists with nonzero size
PresentWithContent == exists(fs, hpath) /\ fs[hpath].n \notin empty

\* the poll read the file as not uploading, not downloading, and of status
\* current or downloaded or of no status at all
ProbedReady ==
    /\ probe # <<>>
    /\ ~probe[1].uploading
    /\ ~probe[1].downloading
    /\ probe[1].status \in {"None", "Current", "Downloaded"}

\* C17: the gate ends within STABILITY_TIMEOUT seconds of polls one
\* STABILITY_WAIT apart; it admits the file only when a poll found it
\* existing, of nonzero size and ready, or when the timeout has elapsed and the
\* file exists with nonzero size; it abandons the file at the poll that finds
\* it missing; the file it admits is never missing or of size zero.
C17_GateBoundedAndSound ==
    /\ [](InGate => now - start <= STABILITY_TIMEOUT)
    /\ [][ /\ Admits => PresentWithContent
           /\ (Admits /\ gate' = "ready") =>
                  ProbedReady' /\ now - start < STABILITY_TIMEOUT
           /\ (Admits /\ gate' = "timeout") => now - start >= STABILITY_TIMEOUT
           /\ (hpc = "gate" /\ hpc' # hpc /\ now - start < STABILITY_TIMEOUT
                 /\ ~exists(fs, hpath)) => gate' = "abandoned" /\ hpc' = "idle"
           /\ (hpc = "timeout_exists" /\ hpc' # hpc /\ ~exists(fs, hpath)) =>
                  gate' = "abandoned" /\ hpc' = "idle"
           /\ (hpc = "sleep" /\ hpc' # hpc) => now' = now + STABILITY_WAIT
         ]_vars
    /\ <>(~InGate)

\* the gate admitted, once the timeout had elapsed, a file that never was ready
C17_Witness ==
    /\ gate = "timeout" /\ hpc = "ingest_copy"
    /\ now - start = STABILITY_TIMEOUT
    /\ exists(fs, hpath)

\* C18: no exception leaves _handle_file, whatever fails while it handles a
\* file (the file vanishing or erroring during the readiness check, the copy
\* or the move to the trash failing, process() failing), so the watcher goes
\* on to later events and to the remaining files of the sweep.
C18_HandleFileNeverPropagates ==
    /\ ~(hmode = "handle" /\ hpc = "raised")
    /\ hmode = "handle" => wpc # "crashed"

\* initial_scan visited path p and did this with it
SweptAs(p, did) == \E i \in 1..Len(swept) : swept[i] = [path |-> p, did |-> did]

\* when the observer is started, the sweep has called _handle_file on every
\* matching file that was in the source folder (unless the file was gone when
\* its turn came) and then _process on every matching staged file
SweepDone ==
    wpc = "observing" =>
        /\ \A p \in at_start.source : SweptAs(p, "handle") \/ SweptAs(p, "skip")
        /\ \A p \in at_start.pending : SweptAs(p, "process")
        /\ \A i, j \in 1..Len(swept) :
              (swept[i].did = "handle" /\ swept[j].did = "process") => i < j

\* a staged file of the sweep goes to process() as it is: no gate, no copy,
\* no move to the trash
StagedProcessedDirectly ==
    hmode = "pending" =>
        /\ hpc \in {"idle", "process", "raised"}
        /\ pending_path = hpath
        /\ Parent(hpath) = paths_pending

\* this step is a step of the sweep that neither continues the sweep nor
\* starts the observer
SweepAborted ==
    /\ wpc = "scan_source" \/ wpc = "scan_pending"
    /\ wpc' \notin {"scan_source", "scan_pending", "observing"}

\* the order and the coverage of the sweep, whenever it reaches its end: the
\* source files first, then the staged files as they are, then the observer
\* and its events
SweepOrder ==
    /\ [](SweepDone /\ StagedProcessedDirectly)
    /\ [][(Len(events') < Len(events)) => wpc = "observing"]_vars

\* C19: run_watcher completes one sweep before any live event is handled:
\* every matching file of the source folder is handled as a live event is,
\* then every matching staged file is processed without a new copy or move to
\* the trash, and only then is the observer started and an event handled.
C19_SweepCompletesThenObserves ==
    /\ SweepOrder
    /\ [][~SweepAborted]_vars

-----------------------------------------------------------------------------
(* cleanup *)

\* run_cleanup has returned
CleanedUp == cleanup_call # <<>> /\ cleanup_call[1].ret # <<>>

\* the regular files directly in the trash directory whose modification time
\* is older than now - retention_days
OldTrashFiles ==
    {p \in DOMAIN fs :
        /\ Parent(p) = paths_trash
        /\ fs[p].kind = "doc"
        /\ mtime[fs[p].n] < now - cleanup_call[1].retention_days * 86400}

\* C20: run_cleanup deletes exactly the regular files directly in the trash
\* directory whose modification time is older than now - retention_days and
\* returns their count; the files at or newer than the cutoff, the
\* subdirectories and what is inside them, and every file elsewhere stay as
\* they are; without a trash directory it returns 0 and changes nothing.
C20_CleanupRemovesExactlyOld ==
    [][ (~CleanedUp /\ CleanedUp') =>
            /\ DOMAIN fs' = DOMAIN fs \ OldTrashFiles
            /\ \A p \in DOMAIN fs' : fs'[p] = fs[p]
            /\ mtime' = mtime
            /\ cleanup_call'[1].ret = <<Cardinality(OldTrashFiles)>>
            /\ ~exists(fs, paths_trash) => (fs' = fs /\ cleanup_call'[1].ret = <<0>>)
      ]_vars

\* run_cleanup removed one old file and left a file of exactly the cutoff's
\* age, a subdirectory and the old file inside it
C20_Witness ==
    /\ CleanedUp
    /\ cleanup_call[1].ret = <<1>>
    /\ ~exists(fs, TrashX)
    /\ exists(fs, TrashY)
    /\ mtime[fs[TrashY].n] = now - cleanup_call[1].retention_days * 86400
    /\ exists(fs, TrashD)
    /\ exists(fs, TrashDZ)
    /\ mtime[fs[TrashDZ].n] < now - cleanup_call[1].retention_days * 86400

-----------------------------------------------------------------------------
(* The helpers of the reprocess command *)

\* in_date_range has returned
DateRangeReturned ==
    /\ helper_call # <<>> /\ helper_call[1].fn = "in_date_range"
    /\ helper_call[1].ret # <<>>

\* part is made of exactly n digits
DigitsOf(part, n) ==
    /\ Len(part) = n
    /\ \A k \in 1..n : part[k] \in {"0", "1", "2", "3", "4", "5", "6", "7", "8", "9"}

\* parts[i] and parts[i + 1] are a <YYYY>/<MM> pair
MonthFolderAt(parts, i) ==
    /\ i + 1 <= Len(parts)
    /\ DigitsOf(parts[i], 4)
    /\ DigitsOf(parts[i + 1], 2)

\* the number a string of digits and dashes stands for when the dashes are
\* dropped
RECURSIVE DateNumber(_)
DateNumber(s) ==
    IF s = <<>> THEN 0
    ELSE IF s[Len(s)] = "-" THEN DateNumber(SubSeq(s, 1, Len(s) - 1))
    ELSE DateNumber(SubSeq(s, 1, Len(s) - 1)) * 10
            + (CHOOSE d \in 0..9 : Digit(d) = s[Len(s)])

\* the first day of the month of the pair at i lies in [start, end]
FirstOfMonthInRange(parts, i) ==
    LET first == DateNumber(parts[i]) * 10000 + DateNumber(parts[i + 1]) * 100 + 1
    IN  /\ DateNumber(helper_call[1].start) <= first
        /\ first <= DateNumber(helper_call[1].end)

\* C21: in_date_range is true exactly when the path has a four-digit part
\* followed by a two-digit part whose first day of the month lies in
\* [start, end], and false when the path has no such pair.
C21_MonthFolderDecides ==
    DateRangeReturned =>
        LET parts == helper_call[1].path
        IN  helper_call[1].ret[1] =
               (\E i \in 1..Len(parts) :
                   MonthFolderAt(parts, i) /\ FirstOfMonthInRange(parts, i))

-----------------------------------------------------------------------------
(* The analysis adapters *)

\* _parse_response has ended, by a return or by an exception
ParseEnded ==
    /\ helper_call # <<>> /\ helper_call[1].fn = "_parse_response"
    /\ helper_call[1].ret # <<>> \/ helper_call[1].raised # <<>>

\* C22: _parse_response returns a record for every response text and never
\* raises; in the record title, subject, issuer and summary are strings and
\* only date may be null.
C22_ParseNeverFails ==
    ParseEnded =>
        /\ helper_call[1].raised = <<>>
        /\ helper_call[1].ret # <<>>
        /\ \A field \in {"title", "subject", "issuer", "summary"} :
              helper_call[1].ret[1][field].t = "str"

\* text looks like path traversal or like code or markup
Suspicious(s) ==
    \/ \E k \in 1..Len(s) : s[k] \in {"{", "}", "<", ">", "BACKTICK", "LF", "NUL"}
    \/ \E k \in 1..(Len(s) - 2) : s[k] = "." /\ s[k + 1] = "." /\ s[k + 2] = "/"

\* C23: no text field (title, subject, issuer, summary) of a record the
\* analysis adapter returns is suspicious: a field that holds '../', one of
\* the characters { } < > `, or a control character was replaced by its
\* sentinel.
C23_NoSuspiciousField ==
    (ParseEnded /\ helper_call[1].ret # <<>>) =>
        \A field \in {"title", "subject", "issuer", "summary"} :
            helper_call[1].ret[1][field].t = "str"
                => ~Suspicious(helper_call[1].ret[1][field].v)

-----------------------------------------------------------------------------
(* The shutdown of the watcher *)

\* C24: an interrupt that arrives while run_watcher waits on the observer
\* makes it stop the observer, wait for its thread to end and return: no
\* interrupt makes run_watcher leave before the observer's thread has ended,
\* and the handler call in flight is completed, not cancelled.
C24_InterruptStopsAndJoins ==
    /\ wpc # "interrupted"
    /\ wpc = "returned" => hpc = "idle"

\* the storage.quarantine calls made on the source document by the current
\* process() call
QuarantineAttemptsOnSource ==
    {k \in CallsOf("storage.quarantine") : calls[k].arg = path}

\* C25: within a single process call storage.quarantine is attempted at most
\* once for the source document, whichever failure path triggered it and
\* even when the quarantine move itself raises
C25_QuarantineAttemptedOnce ==
    Cardinality(QuarantineAttemptsOnSource) <= 1

\* the places of the file system f that hold the file d
Holders(f, d) == {p \in DOMAIN f : f[p] = d}

\* p is a place where handled documents are kept: the trash directory, the
\* quarantine directory or the archive (anything but the source folder and
\* the staging directory)
KeptPlace(p) == Parent(p) \notin {paths_source, paths_pending}

\* this step ends a _handle_file call whose process() returned, with no
\* failure other than those of OCR, analysis and metadata
HandlingFinishes ==
    /\ hmode = "handle" /\ hpc = "process" /\ hpc' = "idle"
    /\ pc = "returned"
    /\ \A k \in 1..Len(calls) :
          calls[k].raised =>
              calls[k].call \in {"ocr.process", "ocr.extract_text", "llm.analyze",
                                 "metadata.update_pdf", "metadata.write_sidecar"}

\* at the end of the handling the original is in the trash directory and the
\* staged copy is in exactly one place, the archive on success and the
\* quarantine directory on failure
HandledDocumentInPlace ==
    /\ exists(fs, trash_path(hpath, timestamp))
    /\ Holders(fs, doc) = {result.output_path[1]}
    /\ IF success(result)
       THEN Parent(result.output_path[1]) = store_dir(info[1])
       ELSE Parent(result.output_path[1]) = paths_quarantine

\* this step of the handler or of the pipeline leaves every kept file where
\* it is and as it is
KeptFilesStay ==
    \A p \in DOMAIN fs : KeptPlace(p) => (exists(fs', p) /\ fs'[p] = fs[p])

\* C26: when _handle_file has finished with an admitted file (OCR, analysis
\* or metadata having failed or not), the original is in the trash directory
\* and the staged copy is in exactly one place, the archive on success and
\* the quarantine directory on failure; and no step of the handler or of
\* the pipeline deletes or replaces a file kept in the trash, the archive or
\* the quarantine directory.
C26_NoDocumentLostOrDuplicated ==
    [][ /\ HandlingFinishes => HandledDocumentInPlace
        /\ (hpc # "idle") => KeptFilesStay
      ]_vars

-----------------------------------------------------------------------------
(* What process() leaves in the staging directory *)

\* the places of the document of the process() call and of its sidecars
DocumentFiles == {path, with_suffix(path, TXT), with_suffix(path, YAML)}

\* this step is the return of process(path, keep=False) on a service with a
\* quarantine directory, no storage.quarantine call having raised
ReturnsWithQuarantineDir ==
    /\ pc # "returned" /\ pc' = "returned"
    /\ ~keep' /\ quarantine_dir' # <<>>
    /\ \A k \in 1..Len(calls') :
          calls'[k].call = "storage.quarantine" => ~calls'[k].raised

\* C27: when process(path, keep=False) returns on a service with a quarantine
\* directory, neither the document nor its .txt or .yaml sidecar is left in
\* the staging directory, whichever pipeline step failed
C27_NothingLeftInStaging ==
    [][ ReturnsWithQuarantineDir =>
            (\A p \in DocumentFiles' : ~exists(fs', p))
      ]_vars

\* in file system f the quarantined sidecar at p belongs to the quarantined
\* document at q
SidecarOf(f, p, q) ==
    /\ p \in Quarantined(f) /\ q \in Quarantined(f)
    /\ f[p].kind \in {"txt", "yaml"}
    /\ f[q].kind = "doc"
    /\ f[p].n = f[q].n

\* C28: after any sequence of runs, every sidecar in the quarantine directory
\* has the base name of the quarantined document it belongs to, and no step
\* replaces or removes a file of the quarantine directory
C28_QuarantinedSidecarsKeepBaseName ==
    [][ /\ \A p \in DOMAIN fs', q \in DOMAIN fs' :
              SidecarOf(fs', p, q) => Stem(p) = Stem(q)
        /\ \A p \in Quarantined(fs) : exists(fs', p) /\ fs'[p] = fs[p]
      ]_vars

-----------------------------------------------------------------------------
(* Files that arrive while the watcher runs *)

\* run_watcher is in its sweep or in its wait loop
WatcherRunning == wpc \in {"scan_source", "scan_pending", "observing"}

\* the pattern-matching file of the source folder
ArrivedFile == Join(paths_source, <<"a", ".", "p", "d", "f">>)

\* C29: a pattern-matching file that is in the source folder while
\* run_watcher is running, created during the sweep or after it, is
\* eventually passed to _handle_file
C29_ArrivalEventuallyHandled ==
    (WatcherRunning /\ exists(fs, ArrivedFile))
        ~> (hmode = "handle" /\ hpath = ArrivedFile)

-----------------------------------------------------------------------------
(* Recovery after a kill *)

\* the sweep is over, the observer is running and has nothing to deliver
SweepOverAndQuiet == wpc = "observing" /\ hpc = "idle" /\ events = <<>>

\* the files of the staging directory, documents and sidecars
Staged(f) == {p \in DOMAIN f : Parent(p) = paths_pending}

\* the documents held in the archive or in the quarantine directory
ArchivedOrQuarantined(f) ==
    {p \in DOMAIN f : KeptPlace(p) /\ Parent(p) # paths_trash /\ f[p].kind = "doc"}

\* C30: with the watcher killed during handler calls and started again, once
\* a sweep is over and the observer is quiet, no document or sidecar is left
\* in the staging directory and no document is archived or quarantined more
\* than once. (Every file id was given to an arrived file or to a staged
\* copy of one, so with at most one copy per arrived file in the archive and
\* the quarantine directory, these hold at most half of the ids.)
C30_RecoveryExactlyOnce ==
    SweepOverAndQuiet =>
        /\ Staged(fs) = {}
        /\ 2 * Cardinality(ArchivedOrQuarantined(fs)) <= nextId

====
